---- MODULE Spec2Model ----
(***************************************************************************)
(* Model of the vcard_parser crate: the Vcard aggregate (src/vcard/mod.rs), *)
(* the property matching rule (src/vcard/property/mod.rs), the PID and      *)
(* CLIENTPIDMAP values and the text forms produced by Display and read by   *)
(* the TryFrom conversions.                                                 *)
(*                                                                          *)
(* Conventions.  Option<T> is a sequence of length 0 (None) or 1 (Some).    *)
(* Text is a sequence of one-character strings; a URI is carried as one     *)
(* token.  A Result is a record with fields ok, err and val.               *)
(***************************************************************************)
EXTENDS Integers, Sequences, FiniteSets, TLC

None == <<>>

Some(x) == <<x>>

\* ------------------------------------------------------------------------
\* Bounds of the model.
\* ------------------------------------------------------------------------
\* Largest number of properties other than CLIENTPIDMAP a card holds in the
\* model.
MaxProps == 3

\* Largest number of CLIENTPIDMAP properties a card holds in the model.
MaxMaps == 2

\* Largest number of property lines of a text a card is constructed from.
MaxParse == 2

\* Largest local id of a PID pair of the operands of matching.
MaxPid == 2

\* ------------------------------------------------------------------------
\* Characters (src/constants.rs, Encoding).
\* ------------------------------------------------------------------------
UNESCAPED_BACKSLASH == "\\"

UNESCAPED_COMMA == ","

UNESCAPED_LF == "\n"

UNESCAPED_SEMICOLON == ";"

UNESCAPED_TAB == "\t"

ESCAPED_BACKSLASH == <<"\\", "\\">>

ESCAPED_COMMA == <<"\\", ",">>

ESCAPED_LF == <<"\\", "\\", "n">>

ESCAPED_SEMICOLON == <<"\\", ";">>

ESCAPED_TAB == <<"\\", "\\", "t">>

\* escape(str): one match arm per character.
RECURSIVE escape(_)
escape(str) ==
    IF str = <<>> THEN <<>>
    ELSE LET char == Head(str)
             out  == IF char = UNESCAPED_BACKSLASH THEN ESCAPED_BACKSLASH
                     ELSE IF char = UNESCAPED_COMMA THEN ESCAPED_COMMA
                     ELSE IF char = UNESCAPED_LF THEN ESCAPED_LF
                     ELSE IF char = UNESCAPED_SEMICOLON THEN ESCAPED_SEMICOLON
                     ELSE IF char = UNESCAPED_TAB THEN ESCAPED_TAB
                     ELSE <<char>>
         IN out \o escape(Tail(str))

\* unescape(str), reading from position i: a backslash consumes the next
\* character; after a second backslash an 'n' or 't' is consumed as well;
\* an unrecognised pair is dropped (the `_ => continue` arm).
RECURSIVE unescapeFrom(_, _)
unescapeFrom(str, i) ==
    IF i > Len(str) THEN <<>>
    ELSE IF str[i] # UNESCAPED_BACKSLASH THEN <<str[i]>> \o unescapeFrom(str, i + 1)
    ELSE IF i + 1 > Len(str) THEN <<>>
    ELSE IF str[i + 1] = UNESCAPED_BACKSLASH THEN
        IF i + 2 <= Len(str) /\ str[i + 2] = "n"
            THEN <<UNESCAPED_LF>> \o unescapeFrom(str, i + 3)
        ELSE IF i + 2 <= Len(str) /\ str[i + 2] = "t"
            THEN <<UNESCAPED_TAB>> \o unescapeFrom(str, i + 3)
        ELSE <<UNESCAPED_BACKSLASH>> \o unescapeFrom(str, i + 2)
    ELSE IF str[i + 1] = UNESCAPED_COMMA THEN <<UNESCAPED_COMMA>> \o unescapeFrom(str, i + 2)
    ELSE IF str[i + 1] = UNESCAPED_LF THEN <<UNESCAPED_LF>> \o unescapeFrom(str, i + 2)
    ELSE IF str[i + 1] = UNESCAPED_SEMICOLON THEN <<UNESCAPED_SEMICOLON>> \o unescapeFrom(str, i + 2)
    ELSE unescapeFrom(str, i + 2)

unescape(str) == unescapeFrom(str, 1)

\* ------------------------------------------------------------------------
\* Integers in text: `{}` formatting of an i32 and str::parse::<i32>().
\* ------------------------------------------------------------------------
Digits == <<"0", "1", "2", "3", "4", "5", "6", "7", "8", "9">>

IsDigit(c) == \E d \in 1..10 : Digits[d] = c

DigitValue(c) == (CHOOSE d \in 1..10 : Digits[d] = c) - 1

RECURSIVE FormatInt(_)
FormatInt(n) ==
    IF n < 10 THEN <<Digits[n + 1]>>
    ELSE FormatInt(n \div 10) \o <<Digits[(n % 10) + 1]>>

RECURSIVE DigitsValue(_)
DigitsValue(str) ==
    IF str = <<>> THEN 0
    ELSE DigitsValue(SubSeq(str, 1, Len(str) - 1)) * 10 + DigitValue(str[Len(str)])

\* Result of parsing text as an i32: Some(n) for a run of digits, else None.
ParseInt(str) ==
    IF str # <<>> /\ \A k \in 1..Len(str) : IsDigit(str[k])
        THEN Some(DigitsValue(str))
        ELSE None

\* Position of the first occurrence of character c in str, 0 when absent.
IndexOf(str, c) ==
    IF \E k \in 1..Len(str) : str[k] = c
        THEN CHOOSE k \in 1..Len(str) : str[k] = c /\ \A j \in 1..(k - 1) : str[j] # c
        ELSE 0

\* str.split(c): the pieces between the occurrences of c; SplitAt continues
\* from the position k of the first occurrence.
RECURSIVE Split(_, _)
RECURSIVE SplitAt(_, _, _)
SplitAt(str, k, c) ==
    IF k = 0 THEN <<str>>
    ELSE <<SubSeq(str, 1, k - 1)>> \o Split(SubSeq(str, k + 1, Len(str)), c)

Split(str, c) == SplitAt(str, IndexOf(str, c), c)

\* The least element of a set of positions, 0 for the empty set.
First(ks) == IF ks = {} THEN 0 ELSE CHOOSE k \in ks : \A j \in ks : k <= j

\* ------------------------------------------------------------------------
\* Values (src/vcard/value).  One record shape for every kind: unused
\* fields hold their empty value.
\* ------------------------------------------------------------------------
ValueText(text) ==
    [kind |-> "ValueText", text |-> text, pid |-> <<>>, id |-> 0, client |-> "", integer |-> 0, list |-> <<>>]

ValuePid(pairs) ==
    [kind |-> "ValuePid", text |-> <<>>, pid |-> pairs, id |-> 0, client |-> "", integer |-> 0, list |-> <<>>]

ValueClientPidMap(id, client) ==
    [kind |-> "ValueClientPidMap", text |-> <<>>, pid |-> <<>>, id |-> id, client |-> client,
     integer |-> 0, list |-> <<>>]

ValueInteger(n) ==
    [kind |-> "ValueInteger", text |-> <<>>, pid |-> <<>>, id |-> 0, client |-> "", integer |-> n, list |-> <<>>]

ValueUri(text) ==
    [kind |-> "ValueUri", text |-> text, pid |-> <<>>, id |-> 0, client |-> "", integer |-> 0,
     list |-> <<>>]

ValueListComponent(list) ==
    [kind |-> "ValueListComponent", text |-> <<>>, pid |-> <<>>, id |-> 0, client |-> "",
     integer |-> 0, list |-> list]

Ok(v) == [ok |-> TRUE, err |-> "", val |-> v]

Err(e) == [ok |-> FALSE, err |-> e, val |-> <<>>]

\* The results of converting a list element by element: the first failure,
\* or the list of the converted elements.
ConsOk(h, t) ==
    IF ~h.ok THEN h
    ELSE IF ~t.ok THEN t
    ELSE Ok(<<h.val>> \o t.val)

\* ValueTextData::from(str): the stored text is unescaped.
ValueTextData_from(str) == ValueText(unescape(str))

\* One datum of a PID value with a dot: `id.cid`, kept when both parse.
PidPair(a, b) ==
    IF a # None /\ b # None THEN <<[id |-> a[1], cid |-> Some(b[1])]>> ELSE <<>>

\* One datum of a PID value without a dot: `id`, kept when it parses.
PidSingle(a) == IF a # None THEN <<[id |-> a[1], cid |-> None]>> ELSE <<>>

\* One datum split at the position k of its first dot (split_once('.')).
PidDatumAt(datum, k) ==
    IF k # 0
       THEN PidPair(ParseInt(SubSeq(datum, 1, k - 1)), ParseInt(SubSeq(datum, k + 1, Len(datum))))
       ELSE PidSingle(ParseInt(datum))

PidDatum(datum) == PidDatumAt(datum, IndexOf(datum, "."))

RECURSIVE PidData(_)
PidData(data) ==
    IF data = <<>> THEN <<>> ELSE PidDatum(Head(data)) \o PidData(Tail(data))

\* The end of ValuePidData::try_from: an empty list of pairs is malformed.
PidResult(value) == IF value # <<>> THEN Ok(ValuePid(value)) ELSE Err("ValueMalformed")

\* ValuePidData::try_from(str)
ValuePidData_try_from(str) == PidResult(PidData(Split(str, ";")))

\* One pair of a PID value in text: `id` or `id.cid`.
PidItem_fmt(h) ==
    IF h.cid # None THEN FormatInt(h.id) \o <<".">> \o FormatInt(h.cid[1])
    ELSE FormatInt(h.id)

\* Display for ValuePidData: the pairs joined with a comma.
RECURSIVE ValuePidData_fmt(_)
ValuePidData_fmt(pairs) ==
    IF pairs = <<>> THEN <<>>
    ELSE IF Len(pairs) = 1 THEN PidItem_fmt(pairs[1])
    ELSE PidItem_fmt(pairs[1]) \o <<",">> \o ValuePidData_fmt(Tail(pairs))

\* Url::parse followed by Url::to_string on the URI tokens of the model:
\* the scheme and host are lower-cased and an empty path becomes "/";
\* a string without a scheme is not a URL.
UrlNormal == ("urn:c1" :> "urn:c1") @@ ("HTTP://H" :> "http://h/") @@ ("http://h/" :> "http://h/")

Url_parse(str) ==
    IF Len(str) = 1 /\ str[1] \in DOMAIN UrlNormal THEN Some(UrlNormal[str[1]]) ELSE None

\* The end of ValueClientPidMapData::try_from: both parts must parse.
ClientPidMapOf(id, url) ==
    IF id # None /\ url # None
       THEN Ok(ValueClientPidMap(id[1], url[1]))
       ELSE Err("ValueMalformed")

\* The text split at the position k of its first semicolon (split_once(';')).
ClientPidMapAt(str, k) ==
    IF k # 0
       THEN ClientPidMapOf(ParseInt(SubSeq(str, 1, k - 1)), Url_parse(SubSeq(str, k + 1, Len(str))))
       ELSE Err("ValueMalformed")

\* ValueClientPidMapData::try_from(str): `id;uri`
ValueClientPidMapData_try_from(str) == ClientPidMapAt(str, IndexOf(str, ";"))

\* items.join(delimiter)
RECURSIVE join(_, _)
join(items, delimiter) ==
    IF items = <<>> THEN <<>>
    ELSE IF Len(items) = 1 THEN items[1]
    ELSE items[1] \o <<delimiter>> \o join(Tail(items), delimiter)

\* Display for ValueListComponentData: the escaped items of a component
\* joined with ',', the components joined with ';'.
ValueListComponentData_fmt(list) ==
    join([k \in 1..Len(list) |->
            join([j \in 1..Len(list[k]) |-> escape(list[k][j])], UNESCAPED_COMMA)],
         UNESCAPED_SEMICOLON)

\* Display for Value
Value_fmt(value) ==
    IF value.kind = "ValueText" THEN escape(value.text)
    ELSE IF value.kind = "ValuePid" THEN ValuePidData_fmt(value.pid)
    ELSE IF value.kind = "ValueInteger" THEN FormatInt(value.integer)
    ELSE IF value.kind = "ValueUri" THEN value.text
    ELSE IF value.kind = "ValueListComponent" THEN ValueListComponentData_fmt(value.list)
    ELSE FormatInt(value.id) \o <<";", value.client>>

\* ------------------------------------------------------------------------
\* Parameters (src/vcard/parameter).  The model carries PID parameters,
\* PREF parameters (integer valued) and text valued parameters: CALSCALE,
\* VALUE and the parameters of the variant ParameterXName.
\* ------------------------------------------------------------------------
ParameterName_PID == "PID"

ParameterName_ANY == "ANY"

ParameterName_PREF == "PREF"

ParameterName_CALSCALE == "CALSCALE"

ParameterName_VALUE == "VALUE"

\* The names that Parameter::try_from knows; every other name gives a
\* parameter of the variant ParameterXName.
KnownParameterNames ==
    {"ALTID", "CALSCALE", "CC", "GEO", "INDEX", "LABEL", "LANGUAGE", "LEVEL",
     "MEDIATYPE", "PID", "PREF", "SORT-AS", "TYPE", "TZ", "VALUE"}

\* matches!(parameter, Parameter::ParameterXName(_))
IsXNameParameter(parameter) == parameter.name \notin KnownParameterNames

\* ParameterPrefData::try_from: the parameter of a parsed integer.
ParameterPref(n) ==
    IF n = None THEN Err("ValueMalformed")
    ELSE Ok([name |-> ParameterName_PREF, value |-> ValueInteger(n[1])])

\* ParameterPidData::try_from: the parameter of a parsed PID value.
ParameterPid(v) ==
    IF v.ok THEN Ok([name |-> ParameterName_PID, value |-> v.val]) ELSE v

\* Parameter::try_from((parameter_name, parameter_value))
Parameter_try_from(parameter_name, parameter_value) ==
    IF parameter_name = ParameterName_PID
    THEN ParameterPid(ValuePidData_try_from(parameter_value))
    ELSE IF parameter_name = ParameterName_PREF
    THEN ParameterPref(ParseInt(parameter_value))
    ELSE Ok([name |-> parameter_name, value |-> ValueTextData_from(parameter_value)])

\* Display for Parameter, `;NAME=value`, as the pair the line carries.
Parameter_fmt(parameter) == [name |-> parameter.name, value |-> Value_fmt(parameter.value)]

\* ------------------------------------------------------------------------
\* Properties (src/vcard/property).  The model carries FN and PRODID
\* (single cardinality), ROLE and X-name properties (multiple cardinality,
\* PID allowed) and CLIENTPIDMAP.
\* ------------------------------------------------------------------------
PropertyName_FN == "FN"

PropertyName_PRODID == "PRODID"

PropertyName_ROLE == "ROLE"

PropertyName_CLIENTPIDMAP == "CLIENTPIDMAP"

PropertyName_DEATHDATE == "DEATHDATE"

Cardinality_SINGLE == "SINGLE"

Cardinality_MULTIPLE == "MULTIPLE"

ParameterNames ==
    {"ALTID", "ANY", "CALSCALE", "CC", "GEO", "INDEX", "LABEL", "LANGUAGE", "LEVEL",
     "MEDIATYPE", "PID", "PREF", "SORT-AS", "TYPE", "TZ", "VALUE"}

\* PropertyFnData: cardinality and allowed parameters of FN.
FnCardinality == Cardinality_SINGLE

FnAllowedParameters == {"ALTID", "ANY", "LANGUAGE", "PID", "PREF", "TYPE", "VALUE"}

\* Variant of cardinality in which every property is of multiple cardinality.
cardinality_multiple(property) == Cardinality_MULTIPLE

\* HasCardinality for Property
cardinality(property) ==
    IF property.name = PropertyName_FN THEN FnCardinality
    ELSE IF property.name = PropertyName_PRODID THEN Cardinality_SINGLE
    ELSE Cardinality_MULTIPLE

is_multiple(property) == cardinality(property) = Cardinality_MULTIPLE

is_single(property) == cardinality(property) = Cardinality_SINGLE

\* HasParameters::allowed_parameters for Property
allowed_parameters(property) ==
    IF property.name = PropertyName_FN THEN FnAllowedParameters
    ELSE IF property.name = PropertyName_PRODID THEN {"ANY", "VALUE"}
    ELSE IF property.name = PropertyName_ROLE
        THEN {"ALTID", "ANY", "INDEX", "LANGUAGE", "PID", "PREF", "TYPE", "VALUE"}
    ELSE IF property.name = PropertyName_CLIENTPIDMAP THEN {"ANY"}
    ELSE IF property.name = PropertyName_DEATHDATE
        THEN {"ALTID", "CALSCALE", "LANGUAGE", "VALUE"}
    ELSE ParameterNames

\* The test of add_parameter against the allowed set.
ParameterRejected(parameter, allowed) ==
    /\ parameter.name \notin allowed
    /\ ~IsXNameParameter(parameter)
    /\ ParameterName_ANY \notin allowed

\* HasParameters::add_parameter
add_parameter(property, parameter) ==
    IF ParameterRejected(parameter, allowed_parameters(property))
    THEN Err("ParameterTypeNotAllowed")
    ELSE Ok([property EXCEPT !.parameters = Append(property.parameters, parameter)])

\* HasParameters::add_parameters; add_parameters_next continues after the
\* result r of one add_parameter.
RECURSIVE add_parameters(_, _)
RECURSIVE add_parameters_next(_, _)
add_parameters_next(r, parameters) ==
    IF r.ok THEN add_parameters(r.val, parameters) ELSE r

add_parameters(property, parameters) ==
    IF parameters = <<>> THEN Ok(property)
    ELSE add_parameters_next(add_parameter(property, Head(parameters)), Tail(parameters))

\* The value step of the per-name TryFrom of a property.
with_value(property, v) ==
    IF v.ok THEN Ok([property EXCEPT !.value = v.val]) ELSE v

\* The per-name TryFrom after the parameters were added: the value is
\* parsed as the kind of the property.
create_value(added, property_name, property_value) ==
    IF ~added.ok THEN added
    ELSE IF property_name = PropertyName_CLIENTPIDMAP
    THEN with_value(added.val, ValueClientPidMapData_try_from(property_value))
    ELSE with_value(added.val, Ok(ValueTextData_from(property_value)))

\* Property::create: the per-name TryFrom adds the parameters and then sets
\* the value.
Property_create(property_group, property_name, property_parameters, property_value) ==
    create_value(add_parameters([group |-> property_group, name |-> property_name,
                                 parameters |-> <<>>, value |-> ValueText(<<>>)],
                                property_parameters),
                 property_name, property_value)

\* The parameters of a parsed line, converted in order; the first failure
\* is the result.
RECURSIVE ParametersFromData(_)
ParametersFromData(parameters) ==
    IF parameters = <<>> THEN Ok(<<>>)
    ELSE ConsOk(Parameter_try_from(Head(parameters).name, Head(parameters).value),
                ParametersFromData(Tail(parameters)))

\* The end of create_from_data, after the parameters were converted.
create_from_parameters(data, property_parameters) ==
    IF ~property_parameters.ok THEN property_parameters
    ELSE Property_create(data.group, data.name, property_parameters.val, data.value)

\* Property::create_from_data on one parsed property line
\* (group, name, parameters, value).
create_from_data(data) == create_from_parameters(data, ParametersFromData(data.parameters))

\* Display for Property: `[group.]NAME;param...:value`, as the fields of
\* the line.
RECURSIVE Parameters_fmt(_)
Parameters_fmt(parameters) ==
    IF parameters = <<>> THEN <<>>
    ELSE <<Parameter_fmt(Head(parameters))>> \o Parameters_fmt(Tail(parameters))

Property_fmt(property) ==
    [group |-> property.group, name |-> property.name,
     parameters |-> Parameters_fmt(property.parameters),
     value |-> Value_fmt(property.value)]

\* Variant of Property_export that keeps the PID parameters.
Property_export_keep(property) == Property_fmt(property)

\* Property::export: the text of the property without its PID parameters.
Property_export(property) ==
    Property_fmt([property EXCEPT !.parameters =
                     SelectSeq(property.parameters, LAMBDA p : p.name # ParameterName_PID)])

\* The positions of the PID parameters of a property.
PidPositions(property) ==
    {k \in 1..Len(property.parameters) :
        /\ property.parameters[k].name = ParameterName_PID
        /\ property.parameters[k].value.kind = "ValuePid"}

\* The pairs of the parameter at position k, None for k = 0.
pids_at(property, k) ==
    IF k = 0 THEN None ELSE Some(property.parameters[k].value.pid)

\* The pairs of the parameter at position k without their client parts.
pids_local_at(property, k) ==
    IF k = 0 THEN None
    ELSE Some([j \in 1..Len(property.parameters[k].value.pid) |->
                  [id |-> property.parameters[k].value.pid[j].id, cid |-> None]])

\* Variant of pids_get that drops the client part of every pair.
pids_get_local(property) == pids_local_at(property, First(PidPositions(property)))

\* _pids_get inside PartialEq: the value of the first PID parameter.
pids_get(property) == pids_at(property, First(PidPositions(property)))

\* The nested loop of PartialEq over the pairs of both operands.
pids_match(a, b) ==
    IF a # None /\ b # None
    THEN \E i \in 1..Len(a[1]) : \E j \in 1..Len(b[1]) :
            a[1][i].id = b[1][j].id /\ a[1][i].cid = b[1][j].cid
    ELSE FALSE

\* Variant of eq without the CLIENTPIDMAP rule.
eq_clientpidmap(self, other) ==
    IF self.name # other.name THEN FALSE
    ELSE IF is_single(self) /\ self.name = other.name THEN TRUE
    ELSE IF is_multiple(self) /\ self.name = other.name
    THEN pids_match(pids_get(self), pids_get(other))
    ELSE FALSE

\* PartialEq<Property> for Property: the matching rule.
eq(self, other) ==
    IF self.name = PropertyName_CLIENTPIDMAP THEN FALSE
    ELSE IF self.name # other.name THEN FALSE
    ELSE IF is_single(self) /\ self.name = other.name THEN TRUE
    ELSE IF is_multiple(self) /\ self.name = other.name
    THEN pids_match(pids_get(self), pids_get(other))
    ELSE FALSE

\* ------------------------------------------------------------------------
\* The Vcard aggregate (src/vcard/mod.rs): client and properties.
\* ------------------------------------------------------------------------
\* Vcard::get_property_index: position of the first stored property the
\* argument matches, 0 for None.
get_property_index(props, property) ==
    First({k \in 1..Len(props) : eq(property, props[k])})

\* self.properties.get(i).cloned() for the index of a match, None for 0.
property_at_index(props, i) == IF i = 0 THEN None ELSE Some(props[i])

\* Vcard::get_property: the first stored property the argument matches.
get_property(props, property) == property_at_index(props, get_property_index(props, property))

\* Vcard::get_properties_by_name
get_properties_by_name(props, str) ==
    SelectSeq(props, LAMBDA q : q.name = str /\ is_multiple(q))

\* The property at position k as an Option, None for k = 0.
property_at(props, k) == IF k = 0 THEN None ELSE Some(props[k])

\* Vcard::get_property_by_name
get_property_by_name(props, str) ==
    property_at(props, First({k \in 1..Len(props) : props[k].name = str /\ is_single(props[k])}))

\* The value of the first property of a list, None for the empty list.
first_value(maps) == IF maps = <<>> THEN None ELSE Some(maps[1].value)

\* Variant of get_clientpidmap that takes the first CLIENTPIDMAP property
\* whatever its client.
get_clientpidmap_first(cl, props) ==
    IF cl = None THEN None
    ELSE first_value(get_properties_by_name(props, PropertyName_CLIENTPIDMAP))

\* Vcard::get_clientpidmap: the value of the first CLIENTPIDMAP property
\* whose client equals the client of the card.
get_clientpidmap(cl, props) ==
    IF cl = None THEN None
    ELSE first_value(SelectSeq(get_properties_by_name(props, PropertyName_CLIENTPIDMAP),
                               LAMBDA q : q.value.kind = "ValueClientPidMap" /\ q.value.client = cl[1]))

\* The text of the PID parameter set_property adds: `count + 1`, followed
\* by the id of the CLIENTPIDMAP of the client when there is one.
pid_string(count, clientpidmap) ==
    IF clientpidmap # None
       THEN FormatInt(count + 1) \o <<".">> \o FormatInt(clientpidmap[1].id)
       ELSE FormatInt(count + 1)

\* property.add_parameter(Parameter::try_from(string)?)?
add_pid(property, parameter) ==
    IF ~parameter.ok THEN parameter ELSE add_parameter(property, parameter.val)

\* The first half of set_property: the PID is added to a multiple
\* cardinality property that allows PID and matches no stored property.
set_property_pid(cl, props, property) ==
    IF /\ is_multiple(property)
       /\ property.name # PropertyName_CLIENTPIDMAP
       /\ ParameterName_PID \in allowed_parameters(property)
       /\ get_property_index(props, property) = 0
    THEN add_pid(property,
                 Parameter_try_from(ParameterName_PID,
                                    pid_string(Len(get_properties_by_name(props, property.name)),
                                               get_clientpidmap(cl, props))))
    ELSE Ok(property)

\* Variant of set_property_at that pushes whatever the index of the match.
set_property_at_push(props, property, i) ==
    [ok |-> TRUE, err |-> "", properties |-> Append(props, property), property |-> property]

\* The second half of set_property: replace at the index of the match, or
\* push.
set_property_at(props, property, i) ==
    [ok |-> TRUE, err |-> "",
     properties |-> IF i # 0 THEN [props EXCEPT ![i] = property] ELSE Append(props, property),
     property |-> property]

\* set_property after the PID step, whose result is added.
set_property_match(props, arg, added) ==
    IF ~added.ok
    THEN [ok |-> FALSE, err |-> added.err, properties |-> props, property |-> arg]
    ELSE set_property_at(props, added.val, get_property_index(props, added.val))

\* Variant of set_property that appends without looking for a match.
set_property_push(cl, props, arg) ==
    [ok |-> TRUE, err |-> "", properties |-> Append(props, arg), property |-> arg]

\* Vcard::set_property.  The result carries the new property list and the
\* property that was stored and returned.
set_property(cl, props, arg) ==
    set_property_match(props, arg, set_property_pid(cl, props, arg))

\* remove_property with the index of the match.
remove_at(props, index) ==
    IF index # 0
    THEN [ok |-> TRUE, err |-> "",
          properties |-> SubSeq(props, 1, index - 1) \o SubSeq(props, index + 1, Len(props)),
          removed |-> TRUE]
    ELSE [ok |-> TRUE, err |-> "", properties |-> props, removed |-> FALSE]

\* Variant of remove_property without the FN rule.
remove_property_any(props, property) ==
    remove_at(props, get_property_index(props, property))

\* Vcard::remove_property.  removed is the boolean of Ok(removed).
remove_property(props, property) ==
    IF property.name = PropertyName_FN
    THEN [ok |-> FALSE, err |-> "PropertyFnRequired", properties |-> props, removed |-> FALSE]
    ELSE remove_at(props, get_property_index(props, property))

\* A property line of a text: optional group, name, `;name=value`
\* parameters and the value after the colon.
Line(group, name, parameters, value) ==
    [group |-> group, name |-> name, parameters |-> parameters, value |-> value]

BeginLine == Line(None, "BEGIN", <<>>, <<"VCARD">>)

VersionLine == Line(None, "VERSION", <<>>, <<"4", ".", "0">>)

EndLine == Line(None, "END", <<>>, <<"VCARD">>)

\* Property::create_from_str on the text of one property line.
create_from_str(line) == create_from_data(line)

\* The result of a construction that failed.
Failed(err) == [ok |-> FALSE, err |-> err, properties |-> <<>>]

\* The set_property loop of TryFrom<(Option<String>, Vec<Property>)>;
\* SetAll_next continues after the result r of one set_property.
RECURSIVE SetAll(_, _, _)
RECURSIVE SetAll_next(_, _, _)
SetAll_next(cl, r, list) ==
    IF r.ok THEN SetAll(cl, r.properties, list) ELSE Failed(r.err)

SetAll(cl, props, list) ==
    IF list = <<>> THEN [ok |-> TRUE, err |-> "", properties |-> props]
    ELSE SetAll_next(cl, set_property(cl, props, Head(list)), Tail(list))

\* The CLIENTPIDMAP property of the client, `CLIENTPIDMAP:1;{client}`, that
\* is set before the properties; nothing without a client.
ClientProperty(cl) ==
    IF cl = None THEN Ok(<<>>)
    ELSE ConsOk(create_from_str(Line(None, PropertyName_CLIENTPIDMAP, <<>>, <<"1", ";", cl[1]>>)),
                Ok(<<>>))

\* The properties are set after the CLIENTPIDMAP of the client.
SetSeeded(cl, seed, list) ==
    IF ~seed.ok THEN Failed(seed.err) ELSE SetAll(cl, <<>>, seed.val \o list)

\* The end of the construction: a card without FN is refused.
RequireFn(all) ==
    IF ~all.ok THEN all
    ELSE IF get_property_by_name(all.properties, PropertyName_FN) = None
    THEN Failed("PropertyFnMissing")
    ELSE all

\* TryFrom<(Option<String>, Vec<Property>)> for Vcard
Vcard_try_from(cl, list) == RequireFn(SetSeeded(cl, ClientProperty(cl), list))

\* The create_from_data loop of TryFrom<(Option<String>, VcardData)>.
RECURSIVE PropertiesFromData(_)
PropertiesFromData(data) ==
    IF data = <<>> THEN Ok(<<>>)
    ELSE ConsOk(create_from_data(Head(data)), PropertiesFromData(Tail(data)))

\* The names of the three fixed lines of a card.
FixedNames == {"BEGIN", "VERSION", "END"}

\* Position of the first line after the second that carries a fixed name,
\* where many0(property) stops; past the end when there is none.
PropertiesEnd(text) ==
    IF \E k \in 3..Len(text) : text[k].name \in FixedNames
       THEN CHOOSE k \in 3..Len(text) :
               text[k].name \in FixedNames /\ \A j \in 3..(k - 1) : text[j].name \notin FixedNames
       ELSE Len(text) + 1

\* parse::vcard::vcard with the position where the property lines stop.
parse_vcard_at(text, stop) ==
    IF Len(text) < 1 \/ text[1] # BeginLine THEN Err("ParseError")
    ELSE IF Len(text) < 2 \/ text[2] # VersionLine THEN Err("ParseError")
    ELSE IF stop > Len(text) \/ text[stop] # EndLine THEN Err("ParseError")
    ELSE Ok(SubSeq(text, 3, stop - 1))

\* parse::vcard::vcard: BEGIN:VCARD, VERSION:4.0, property lines, END:VCARD.
\* The result is the sequence of property lines.
parse_vcard(text) == parse_vcard_at(text, PropertiesEnd(text))

\* The construction from the converted property lines.
FromList(cl, list) ==
    IF ~list.ok THEN Failed(list.err) ELSE Vcard_try_from(cl, list.val)

\* The construction from the parsed property lines.
FromData(cl, data) ==
    IF ~data.ok THEN Failed(data.err) ELSE FromList(cl, PropertiesFromData(data.val))

\* TryFrom<&str> and TryFrom<(&str, &str)> for Vcard
Vcard_try_from_str(cl, text) == FromData(cl, parse_vcard(text))

\* Display for Vcard
RECURSIVE Properties_fmt(_)
Properties_fmt(props) ==
    IF props = <<>> THEN <<>> ELSE <<Property_fmt(Head(props))>> \o Properties_fmt(Tail(props))

Vcard_fmt(props) == <<BeginLine, VersionLine>> \o Properties_fmt(props) \o <<EndLine>>

\* The loop of Vcard::export: every property but CLIENTPIDMAP is exported.
RECURSIVE Properties_export(_)
Properties_export(props) ==
    IF props = <<>> THEN <<>>
    ELSE IF Head(props).name # PropertyName_CLIENTPIDMAP
    THEN <<Property_export(Head(props))>> \o Properties_export(Tail(props))
    ELSE Properties_export(Tail(props))

\* Vcard::export
Vcard_export(props) == <<BeginLine, VersionLine>> \o Properties_export(props) \o <<EndLine>>

\* PropertyFnData::from(str) as used by Vcard::new
PropertyFnData_from(str) ==
    [group |-> None, name |-> PropertyName_FN, parameters |-> <<>>, value |-> ValueTextData_from(str)]

\* Vcard::new
Vcard_new(str) == <<PropertyFnData_from(str)>>

\* ------------------------------------------------------------------------
\* Inputs of the model.
\* ------------------------------------------------------------------------
PidText(id) == FormatInt(id)

PidClientText(id, cid) == FormatInt(id) \o <<".">> \o FormatInt(cid)

PidParam(text) == [name |-> ParameterName_PID, value |-> text]

\* Property lines a card is constructed from.
InputLines ==
    { Line(None, PropertyName_FN, <<>>, <<"a">>),
      Line(None, PropertyName_ROLE, <<>>, <<"a">>),
      Line(Some("g"), PropertyName_ROLE, <<PidParam(PidText(2)), [name |-> "X-T", value |-> <<"w">>]>>,
           <<"a", "\\", ",", "b">>),
      Line(None, PropertyName_ROLE, <<PidParam(<<"x">>)>>, <<"a">>),
      Line(None, PropertyName_CLIENTPIDMAP, <<>>, <<"2", ";", "urn:c1">>) }

RECURSIVE SeqsUpTo(_, _)
SeqsUpTo(S, n) ==
    IF n = 0 THEN {<<>>}
    ELSE LET shorter == SeqsUpTo(S, n - 1)
         IN shorter \cup {Append(q, x) : q \in {r \in shorter : Len(r) = n - 1}, x \in S}

InputTexts == {<<BeginLine, VersionLine>> \o body \o <<EndLine>> : body \in SeqsUpTo(InputLines, MaxParse)}

\* Client ids a card is constructed with: none, a URN, a URL that Url::parse
\* normalises, and a string that is not a URL.
Clients == {None, Some("urn:c1"), Some("HTTP://H"), Some("c1")}

\* Property lines given to Property::try_from to build the arguments of
\* set_property and remove_property.
ArgLines ==
    { Line(None, PropertyName_FN, <<>>, <<"b">>),
      Line(None, PropertyName_PRODID, <<>>, <<"b">>),
      Line(None, PropertyName_ROLE, <<>>, <<"a">>),
      Line(None, PropertyName_ROLE, <<PidParam(PidText(1))>>, <<"b">>),
      Line(None, PropertyName_CLIENTPIDMAP, <<>>, <<"2", ";", "urn:c1">>) }

ArgProps == {create_from_str(l).val : l \in {m \in ArgLines : create_from_str(m).ok}}

\* Arguments of remove_property besides the stored properties themselves.
\* A ROLE property to which a PID parameter of two pairs was added:
\* property.add_parameter(Parameter::try_from(("PID", "1;2"))?).
RoleTwoPids ==
    add_pid(create_from_str(Line(None, PropertyName_ROLE, <<>>, <<"a">>)).val,
            Parameter_try_from(ParameterName_PID, <<"1", ";", "2">>)).val

RemoveArgs ==
    {q \in ArgProps : q.name = PropertyName_ROLE /\ Len(q.parameters) <= 1 /\ q.value.text = <<"a">>}
        \cup {RoleTwoPids}

NoProperty == [group |-> None, name |-> "", parameters |-> <<>>, value |-> ValueText(<<>>)]

\* The card is within the bounds of the model.
WithinBounds(props) ==
    /\ Len(SelectSeq(props, LAMBDA q : q.name # PropertyName_CLIENTPIDMAP)) <= MaxProps
    /\ Len(SelectSeq(props, LAMBDA q : q.name = PropertyName_CLIENTPIDMAP)) <= MaxMaps


\* ------------------------------------------------------------------------
\* State: the card (client, properties), the property list before the last
\* operation (pre), the last operation with its argument and result (op),
\* and whether the card is still as parsing produced it (parsed).
\* ------------------------------------------------------------------------
VARIABLES client, properties, pre, op, parsed

vars == <<client, properties, pre, op, parsed>>

Op(kind, arg, ok, err, ret, removed, cl, card) ==
    [kind |-> kind, arg |-> arg, ok |-> ok, err |-> err, ret |-> ret,
     removed |-> removed, cl |-> cl, card |-> card]

InitNew ==
    \E str \in {<<"a">>, <<"b">>} :
        /\ client = None
        /\ properties = Vcard_new(str)
        /\ pre = <<>>
        /\ op = Op("new", NoProperty, TRUE, "", NoProperty, FALSE, None, <<>>)
        /\ parsed = FALSE

\* The card of a construction with result r.
Constructed(cl, r) ==
    /\ r.ok
    /\ WithinBounds(r.properties)
    /\ client = cl
    /\ properties = r.properties
    /\ pre = <<>>
    /\ op = Op("try_from", NoProperty, TRUE, "", NoProperty, FALSE, cl, <<>>)
    /\ parsed = TRUE

InitParsed ==
    \E cl \in Clients : \E text \in InputTexts : Constructed(cl, Vcard_try_from_str(cl, text))

Init == InitNew \/ InitParsed

\* The card after set_property(arg) with result r.
AfterSet(arg, r) ==
    /\ WithinBounds(r.properties)
    /\ properties' = r.properties
    /\ pre' = properties
    /\ op' = Op("set_property", arg, r.ok, r.err, r.property, FALSE, None, <<>>)
    /\ parsed' = FALSE
    /\ UNCHANGED client

\* set_property with a property built from a line, or with the ROLE
\* property whose PID value holds two pairs.
SetProperty ==
    \E arg \in ArgProps \cup {RoleTwoPids} :
        AfterSet(arg, set_property(client, properties, arg))

\* The card after remove_property(arg) with result r.
AfterRemove(arg, r) ==
    /\ properties' = r.properties
    /\ pre' = properties
    /\ op' = Op("remove_property", arg, r.ok, r.err, NoProperty, r.removed, None, <<>>)
    /\ parsed' = FALSE
    /\ UNCHANGED client

RemoveProperty ==
    \E arg \in RemoveArgs \cup {properties[k] : k \in 1..Len(properties)} :
        AfterRemove(arg, remove_property(properties, arg))

\* The record of parsing the text of the card, with result r.
AfterReparse(cl, r) ==
    /\ parsed
    /\ op.kind # "reparse"
    /\ op' = Op("reparse", NoProperty, r.ok, r.err, NoProperty, FALSE, cl, r.properties)
    /\ pre' = properties
    /\ UNCHANGED <<client, properties, parsed>>

\* to_string() of a card obtained by parsing, followed by Vcard::try_from
\* on the text, with the client id of the card or with none.
Reparse ==
    \E cl \in {None, client} : AfterReparse(cl, Vcard_try_from_str(cl, Vcard_fmt(properties)))

\* The record of export() with the text it returned (op.card).
AfterExport(text) ==
    /\ op' = Op("export", NoProperty, TRUE, "", NoProperty, FALSE, None, text)
    /\ pre' = properties
    /\ UNCHANGED <<client, properties, parsed>>

Export == AfterExport(Vcard_export(properties))

Next == SetProperty \/ RemoveProperty \/ Reparse \/ Export

Spec == Init /\ [][Next]_vars

\* ------------------------------------------------------------------------
\* Properties of the card operations, stated over the last operation (op),
\* the property list before it (pre) and the list after it (properties).
\* ------------------------------------------------------------------------
\* Number of stored properties with a name.
CountName(props, name) == Cardinality({k \in 1..Len(props) : props[k].name = name})

\* The property carries a PID parameter.
HasPid(property) ==
    \E k \in 1..Len(property.parameters) : property.parameters[k].name = ParameterName_PID

\* The last operation was a successful set_property.
SetDone == op.kind = "set_property" /\ op.ok

\* C1: a constructed card holds exactly one FN property in every state
\* reachable through set_property and remove_property calls, whether the
\* calls succeed or fail.
C1_ExactlyOneFn == CountName(properties, PropertyName_FN) = 1

\* A set_property with an FN property has replaced an FN of another value
\* on a card that holds further properties.
C1_Witness ==
    /\ SetDone
    /\ op.arg.name = PropertyName_FN
    /\ Len(pre) >= 2
    /\ \E k \in 1..Len(pre) : pre[k].name = PropertyName_FN /\ pre[k].value # op.arg.value
    /\ \E k \in 1..Len(properties) : properties[k] = op.arg

\* C2: every single-cardinality name occurs at most once, and set_property
\* with a single-cardinality property whose name is already present replaces
\* the existing entry, so the number of properties is the same before and
\* after the call.
C2_SingleAtMostOnce ==
    /\ \A i, j \in 1..Len(properties) :
          (is_single(properties[i]) /\ properties[i].name = properties[j].name) => i = j
    /\ (SetDone /\ is_single(op.arg) /\ CountName(pre, op.arg.name) > 0) =>
          /\ Len(properties) = Len(pre)
          /\ \E k \in 1..Len(pre) :
                pre[k].name = op.arg.name /\ properties = [pre EXCEPT ![k] = op.arg]

\* A set_property with PRODID on a card that already holds a PRODID among
\* at least three properties.
C2_Witness ==
    /\ SetDone
    /\ op.arg.name = PropertyName_PRODID
    /\ CountName(pre, PropertyName_PRODID) = 1
    /\ Len(pre) >= 3
    /\ Len(properties) = Len(pre)

\* C3: in any reachable card state, set_property of a multiple-cardinality
\* property that carries no PID adds a new entry: the number of stored
\* properties with that name grows by exactly one and no previously stored
\* property is replaced.
C3_NoPidAdds ==
    (SetDone /\ is_multiple(op.arg) /\ ~HasPid(op.arg)) =>
        /\ CountName(properties, op.arg.name) = CountName(pre, op.arg.name) + 1
        /\ Len(properties) = Len(pre) + 1
        /\ \A k \in 1..Len(pre) : properties[k] = pre[k]

\* C4: set_property assigns a PID only to a property that carries no PID
\* parameter: a property that already carries a PID parameter is stored with
\* exactly the parameters it was given, whether or not it matches an
\* existing entry.
C4_PidKept ==
    (SetDone /\ HasPid(op.arg)) =>
        /\ op.ret.parameters = op.arg.parameters
        /\ \E k \in 1..Len(properties) : properties[k] = op.arg

\* The stored CLIENTPIDMAP ids whose URI equals the client id of the card.
ClientMapIds(cl, props) ==
    {props[k].value.id : k \in {j \in 1..Len(props) :
                                  /\ cl # None
                                  /\ props[j].name = PropertyName_CLIENTPIDMAP
                                  /\ props[j].value.client = cl[1]}}

\* The PID parameter was added by set_property: the stored property is the
\* argument followed by one more parameter.
PidAssigned ==
    /\ SetDone
    /\ Len(op.ret.parameters) = Len(op.arg.parameters) + 1
    /\ SubSeq(op.ret.parameters, 1, Len(op.arg.parameters)) = op.arg.parameters

\* C5: when set_property assigns a PID, the local id is the number of
\* same-name properties already stored plus one, and the client part is the
\* id of the stored CLIENTPIDMAP whose URI equals the client id of the card,
\* absent when there is none.
C5_AssignedPid ==
    (SetDone /\ op.ret # op.arg) =>
        /\ PidAssigned
        /\ LET added == op.ret.parameters[Len(op.ret.parameters)]
               ids   == ClientMapIds(client, pre)
           IN /\ added.name = ParameterName_PID
              /\ Len(added.value.pid) = 1
              /\ added.value.pid[1].id = CountName(pre, op.arg.name) + 1
              /\ IF ids = {} THEN added.value.pid[1].cid = None
                 ELSE added.value.pid[1].cid # None /\ added.value.pid[1].cid[1] \in ids

\* ROLE set a second time on a card with a client id: the first holds PID
\* 1.1 and the second is stored with PID 2.1.
C5_Witness ==
    /\ PidAssigned
    /\ client = Some("urn:c1")
    /\ op.arg.name = PropertyName_ROLE
    /\ op.arg.parameters = <<>>
    /\ \E k \in 1..Len(pre) :
          /\ pre[k].name = PropertyName_ROLE
          /\ pre[k].parameters = <<[name |-> ParameterName_PID,
                                    value |-> ValuePid(<<[id |-> 1, cid |-> Some(1)]>>)]>>
    /\ op.ret.parameters = <<[name |-> ParameterName_PID,
                              value |-> ValuePid(<<[id |-> 2, cid |-> Some(1)]>>)]>>
    /\ properties = Append(pre, op.ret)

\* Position of the first stored property the property matches, 0 if none.
FirstMatch(props, property) ==
    IF \E k \in 1..Len(props) : eq(property, props[k])
       THEN CHOOSE k \in 1..Len(props) :
               eq(property, props[k]) /\ \A j \in 1..(k - 1) : ~eq(property, props[j])
       ELSE 0

\* C6: set_property(p) on a card where some stored property matches p
\* replaces the first matching entry at its position and leaves every other
\* entry and the order unchanged; when no stored property matches, p is
\* appended at the end and all existing entries are unchanged.
C6_ReplaceOrAppend ==
    SetDone =>
        LET i == FirstMatch(pre, op.arg)
        IN IF i # 0 THEN properties = [pre EXCEPT ![i] = op.arg]
           ELSE /\ Len(properties) = Len(pre) + 1
                /\ SubSeq(properties, 1, Len(pre)) = pre
                /\ properties[Len(properties)] = op.ret

\* C7: remove_property with an FN property returns the error
\* PropertyFnRequired and leaves the property list as it was.
C7_RemoveFnRejected ==
    (op.kind = "remove_property" /\ op.arg.name = PropertyName_FN) =>
        /\ ~op.ok
        /\ op.err = "PropertyFnRequired"
        /\ ~op.removed
        /\ properties = pre

\* remove_property was called with the stored FN of a card that holds
\* further properties.
C7_Witness ==
    /\ op.kind = "remove_property"
    /\ op.arg.name = PropertyName_FN
    /\ ~op.ok
    /\ Len(pre) >= 2
    /\ \E k \in 1..Len(pre) : pre[k] = op.arg

\* C8: for a card obtained by parsing, parsing its to_string() succeeds and
\* yields a card with the same properties (names, groups, parameters and
\* values) in the same order.
C8_RoundTrip == op.kind = "reparse" => (op.ok /\ op.card = properties)

\* The number of PID parameters in a list of parameters.
PidCount(parameters) == Len(SelectSeq(parameters, LAMBDA p : p.name = ParameterName_PID))

\* A line of text without its PID parameters.
StripLine(line) ==
    [line EXCEPT !.parameters = SelectSeq(line.parameters, LAMBDA p : p.name # ParameterName_PID)]

\* A text without its CLIENTPIDMAP lines and without the PID parameters of
\* the lines that remain.
StripText(text) ==
    [k \in 1..Len(SelectSeq(text, LAMBDA l : l.name # PropertyName_CLIENTPIDMAP)) |->
        StripLine(SelectSeq(text, LAMBDA l : l.name # PropertyName_CLIENTPIDMAP)[k])]

\* C11: the text export() returns has no CLIENTPIDMAP line and no PID
\* parameter and is the to_string() text without them; the to_string() text
\* has one line per stored property, CLIENTPIDMAP included, each with as
\* many PID parameters as the stored property.
C11_ExportStripsPid ==
    op.kind = "export" =>
        /\ \A k \in 1..Len(op.card) :
              /\ op.card[k].name # PropertyName_CLIENTPIDMAP
              /\ PidCount(op.card[k].parameters) = 0
        /\ op.card = StripText(Vcard_fmt(properties))
        /\ Len(Vcard_fmt(properties)) = Len(properties) + 3
        /\ \A k \in 1..Len(properties) :
              /\ Vcard_fmt(properties)[k + 2].name = properties[k].name
              /\ PidCount(Vcard_fmt(properties)[k + 2].parameters) = PidCount(properties[k].parameters)

C11_Witness ==
    /\ op.kind = "export"
    /\ \E k \in 1..Len(properties) : properties[k].name = PropertyName_CLIENTPIDMAP
    /\ \E k \in 1..Len(properties) :
          /\ properties[k].name = PropertyName_ROLE
          /\ PidCount(properties[k].parameters) = 2
    /\ Len(op.card) < Len(Vcard_fmt(properties))

\* C12 as stated: after a successful set_property, get_property with the
\* returned property returns the stored entry.
C12_ReturnedIdentifies ==
    SetDone => get_property(properties, op.ret) = Some(op.ret)

\* C12: after a successful set_property of a property other than
\* CLIENTPIDMAP, get_property with the returned property returns the stored
\* entry, which is the returned property; for a CLIENTPIDMAP it returns
\* None although the property was stored.
C12_ReturnedIdentifiesUnlessMap ==
    SetDone =>
        /\ \E k \in 1..Len(properties) : properties[k] = op.ret
        /\ IF op.arg.name # PropertyName_CLIENTPIDMAP
           THEN get_property(properties, op.ret) = Some(op.ret)
           ELSE get_property(properties, op.ret) = None

C12_Witness ==
    /\ SetDone
    /\ op.arg.name = PropertyName_ROLE
    /\ op.ret # op.arg
    /\ CountName(pre, PropertyName_ROLE) >= 1
    /\ properties = Append(pre, op.ret)
    /\ get_property(properties, op.ret) = Some(op.ret)

\* C13: after remove_property(p) returned Ok(true) the list is the previous
\* list without the first entry that matched p, and get_property(p) is
\* None: no stored property matches p.
C13_RemovedGone ==
    (op.kind = "remove_property" /\ op.ok /\ op.removed) =>
        /\ FirstMatch(pre, op.arg) # 0
        /\ properties = SubSeq(pre, 1, FirstMatch(pre, op.arg) - 1)
                           \o SubSeq(pre, FirstMatch(pre, op.arg) + 1, Len(pre))
        /\ get_property(properties, op.arg) = None
        /\ \A k \in 1..Len(properties) : ~eq(op.arg, properties[k])

\* ------------------------------------------------------------------------
\* Matching of two properties (PartialEq).  The operands are drawn from
\* EqProps; Compare applies eq to them.  op.arg is self, op.ret is other
\* and op.ok is the result of self == other.
\* ------------------------------------------------------------------------
\* PID pairs (local id, optional client id) of the operands.
PidPairs == {[id |-> i, cid |-> c] : i \in 1..MaxPid, c \in {None, Some(1)}}

\* PID values of one or two pairs, as ValuePidData::from(Vec) builds them.
PidLists == SeqsUpTo(PidPairs, 2) \ {<<>>}

\* A ROLE property with one PID parameter of the given pairs.
RoleWithPid(pairs) ==
    add_parameter(create_from_str(Line(None, PropertyName_ROLE, <<>>, <<"a">>)).val,
                  [name |-> ParameterName_PID, value |-> ValuePid(pairs)]).val

\* Property lines of the operands: single-cardinality properties with and
\* without PID, ROLE without PID, with PID after another parameter and with
\* two PID parameters, an X-name property, and CLIENTPIDMAP with and
\* without PID.
EqLines ==
    { Line(None, PropertyName_FN, <<>>, <<"a">>),
      Line(None, PropertyName_FN, <<PidParam(PidText(1))>>, <<"b">>),
      Line(None, PropertyName_PRODID, <<>>, <<"a">>),
      Line(None, PropertyName_ROLE, <<>>, <<"a">>),
      Line(None, PropertyName_ROLE, <<[name |-> "X-T", value |-> <<"w">>], PidParam(PidText(1))>>, <<"b">>),
      Line(None, PropertyName_ROLE, <<PidParam(PidText(2)), PidParam(PidText(1))>>, <<"a">>),
      Line(None, "X-A", <<PidParam(PidText(1))>>, <<"a">>),
      Line(None, PropertyName_CLIENTPIDMAP, <<>>, <<"1", ";", "urn:c1">>),
      Line(None, PropertyName_CLIENTPIDMAP, <<PidParam(PidText(1))>>, <<"1", ";", "urn:c1">>) }

EqProps == {RoleWithPid(v) : v \in PidLists} \cup {create_from_str(l).val : l \in EqLines}

InitEq ==
    \E a, b \in EqProps :
        /\ client = None
        /\ properties = <<>>
        /\ pre = <<>>
        /\ op = Op("operands", a, FALSE, "", b, FALSE, None, <<>>)
        /\ parsed = FALSE

Compare ==
    /\ op.kind = "operands"
    /\ op' = [op EXCEPT !.kind = "eq", !.ok = eq(op.arg, op.ret)]
    /\ UNCHANGED <<client, properties, pre, parsed>>

NextEq == Compare

SpecEq == InitEq /\ [][NextEq]_vars

\* The pairs of the PID parameter of a property: the value of its PID
\* parameter, the first one when the parameter is repeated.
PairSet(property) ==
    LET ks == {k \in 1..Len(property.parameters) : property.parameters[k].name = ParameterName_PID}
        v  == property.parameters[CHOOSE k \in ks : \A j \in ks : k <= j].value.pid
    IN {v[k] : k \in 1..Len(v)}

C10_ClientPidMapNeverMatches ==
    (op.kind = "eq" /\ (op.arg.name = PropertyName_CLIENTPIDMAP \/ op.ret.name = PropertyName_CLIENTPIDMAP)) =>
        ~op.ok

\* A CLIENTPIDMAP property that carries a PID parameter is compared with an
\* identical copy of itself.
C10_Witness ==
    /\ op.kind = "eq"
    /\ op.arg.name = PropertyName_CLIENTPIDMAP
    /\ op.arg = op.ret
    /\ HasPid(op.arg)
    /\ ~op.ok

\* ------------------------------------------------------------------------
\* Escaping and unescaping of text (src/parse/encoding.rs).  A string is
\* drawn from EncStrings (op.arg.value.text); Escape and Unescape replace
\* the current text (op.ret.value.text) by the result of the function, and
\* op.kind records which functions were applied.
\* ------------------------------------------------------------------------
\* Longest string of the encoding model.
MaxLen == 3

\* Ordinary characters and the reserved characters.
EncChars == {"a", "n", UNESCAPED_BACKSLASH, UNESCAPED_COMMA, UNESCAPED_SEMICOLON, UNESCAPED_LF}

EncStrings == SeqsUpTo(EncChars, MaxLen)

\* A text as the value of an operand.
TextOperand(str) == [NoProperty EXCEPT !.value = ValueText(str)]

InitEnc ==
    \E str \in EncStrings :
        /\ client = None
        /\ properties = <<>>
        /\ pre = <<>>
        /\ op = Op("string", TextOperand(str), TRUE, "", TextOperand(str), FALSE, None, <<>>)
        /\ parsed = FALSE

Escape ==
    /\ op.kind = "string"
    /\ op' = [op EXCEPT !.kind = "escape", !.ret = TextOperand(escape(op.ret.value.text))]
    /\ UNCHANGED <<client, properties, pre, parsed>>

Unescape ==
    /\ op.kind \in {"string", "escape"}
    /\ op' = [op EXCEPT !.kind = IF op.kind = "string" THEN "unescape" ELSE "unescape_escape",
                        !.ret = TextOperand(unescape(op.ret.value.text))]
    /\ UNCHANGED <<client, properties, pre, parsed>>

NextEnc == Escape \/ Unescape

SpecEnc == InitEnc /\ [][NextEnc]_vars

\* C14: unescape(escape(s)) = s for every string s of ordinary and reserved
\* characters.
C14_UnescapeEscape ==
    op.kind = "unescape_escape" => op.ret.value.text = op.arg.value.text

\* The characters that form an escape sequence after a backslash.
EscapeChars == {UNESCAPED_BACKSLASH, UNESCAPED_COMMA, UNESCAPED_SEMICOLON, UNESCAPED_LF, "n", "t"}

\* Every backslash of str is followed by no escape character: by another
\* character or by the end of the string.
OnlyLiteralBackslashes(str) ==
    \A k \in 1..Len(str) :
        str[k] = UNESCAPED_BACKSLASH => (k = Len(str) \/ str[k + 1] \notin EscapeChars)

\* C15: unescape returns a string unchanged when each of its backslashes is
\* followed by no escape character: the backslash and the character after
\* it are kept and nothing is dropped.
C15_LiteralBackslash ==
    (op.kind = "unescape" /\ OnlyLiteralBackslashes(op.arg.value.text)) =>
        op.ret.value.text = op.arg.value.text

\* ------------------------------------------------------------------------
\* Folded property values (src/parse/value.rs, src/parse/delimiters.rs,
\* Property::create_from_data).  A value is drawn from FoldValues
\* (op.arg.value.text); Fold writes it as the text after the colon of a
\* property line, with fold markers inserted (op.ret.value.text);
\* ParseValue applies property_value and joins the fragments as
\* create_from_data does.
\* ------------------------------------------------------------------------
\* Longest value of the folding model.
MaxFold == 3

\* is_value_char
is_value_char(c) == c \notin {"\n", "\r", "\t"}

\* take_while(is_value_char) from position i: the position after the run.
ValueEnd(str, i) ==
    IF \E k \in i..Len(str) : ~is_value_char(str[k])
       THEN First({k \in i..Len(str) : ~is_value_char(str[k])})
       ELSE Len(str) + 1

\* line_ending at position e: the length of "\n" or "\r\n", 0 for no match.
LineEndingLen(str, e) ==
    IF e <= Len(str) /\ str[e] = "\n" THEN 1
    ELSE IF e + 1 <= Len(str) /\ str[e] = "\r" /\ str[e + 1] = "\n" THEN 2
    ELSE 0

\* The run of spaces and tabs from position j (space1): the position after
\* the run, j for an empty run.
SpaceEnd(str, j) ==
    IF \E k \in j..Len(str) : str[k] \notin {" ", "\t"}
       THEN First({k \in j..Len(str) : str[k] \notin {" ", "\t"}})
       ELSE Len(str) + 1

\* A fragment followed by the fragments r of the rest.
fragment_join(seg, r) == [text |-> seg \o r.text, rest |-> r.rest]

\* value: take_while(is_value_char) and then many0(value_folded), where
\* value_folded is fold (line_ending, space1) followed by
\* take_while(is_value_char).  The result carries the fragments joined
\* (property_value.join("") of create_from_data) and the position where
\* the parser stopped.
RECURSIVE value_from(_, _)
RECURSIVE value_space(_, _, _, _, _)
value_space(str, seg, e, j, k) ==
    IF k = j THEN [text |-> seg, rest |-> e]
    ELSE fragment_join(seg, value_from(str, k))

value_fold(str, seg, e, n) ==
    IF n = 0 THEN [text |-> seg, rest |-> e]
    ELSE value_space(str, seg, e, e + n, SpaceEnd(str, e + n))

value_segment(str, i, e) == value_fold(str, SubSeq(str, i, e - 1), e, LineEndingLen(str, e))

value_from(str, i) == value_segment(str, i, ValueEnd(str, i))

\* The end of property_value: peek(line_ending) after the value.
value_peek(str, r) ==
    IF LineEndingLen(str, r.rest) # 0 THEN Ok(r.text) ELSE Err("ParseError")

\* property_value on the text after the colon of a property line.
property_value(str) == value_peek(str, value_from(str, 1))

\* Values: ordinary characters and spaces.
FoldValues == SeqsUpTo({"a", " "}, MaxFold)

\* The characters of value from position k + 1, with a fold marker (line
\* break and the whitespace character ws) at every position of points.
RECURSIVE FoldFrom(_, _, _, _)
FoldFrom(value, points, ws, k) ==
    (IF k \in points THEN <<"\n", ws>> ELSE <<>>)
        \o (IF k < Len(value) THEN <<value[k + 1]>> \o FoldFrom(value, points, ws, k + 1) ELSE <<>>)

InitFold ==
    \E value \in FoldValues :
        /\ client = None
        /\ properties = <<>>
        /\ pre = <<>>
        /\ op = Op("value", TextOperand(value), TRUE, "", TextOperand(value), FALSE, None, <<>>)
        /\ parsed = FALSE

Fold ==
    /\ op.kind = "value"
    /\ \E points \in SUBSET (0..Len(op.arg.value.text)) : \E ws \in {" ", "\t"} :
          op' = [op EXCEPT !.kind = "fold",
                           !.ret = TextOperand(FoldFrom(op.arg.value.text, points, ws, 0) \o <<"\n">>),
                           !.card = points]
    /\ UNCHANGED <<client, properties, pre, parsed>>

\* The record of property_value with result r on the folded text.
AfterParseValue(r) ==
    /\ op.kind = "fold"
    /\ op' = [op EXCEPT !.kind = "property_value", !.ok = r.ok, !.err = r.err,
                        !.ret = TextOperand(r.val), !.card = op.ret.value.text]
    /\ UNCHANGED <<client, properties, pre, parsed>>

ParseValue == AfterParseValue(property_value(op.ret.value.text))

NextFold == Fold \/ ParseValue

SpecFold == InitFold /\ [][NextFold]_vars

\* C16: parsing a value folded at arbitrary positions succeeds and yields
\* the original value character for character.
C16_FoldInverse ==
    op.kind = "property_value" => (op.ok /\ op.ret.value.text = op.arg.value.text)

\* ------------------------------------------------------------------------
\* Text lists (src/vcard/value/value_textlist.rs).  A string and a
\* delimiter are drawn (op.arg.value.text, op.err); ParseTextList applies
\* ValueTextListData::from and records the items (op.card).
\* ------------------------------------------------------------------------
\* Longest string of the text-list model.
MaxList == 3

\* The while loop of ValueTextListData::from, at the character of position
\* i, with the previous character prev, the characters text of the current
\* item and the items value pushed so far.
RECURSIVE textlist_loop(_, _, _, _, _, _)
textlist_loop(str, delimiter, i, prev, text, value) ==
    IF i > Len(str) THEN value
    ELSE IF i = Len(str)
    THEN IF str[i] = delimiter
         THEN value \o <<unescape(text), <<>>>>
         ELSE value \o <<unescape(Append(text, str[i]))>>
    ELSE IF str[i] = delimiter /\ prev # UNESCAPED_BACKSLASH
    THEN textlist_loop(str, delimiter, i + 1, prev, <<>>, Append(value, unescape(text)))
    ELSE textlist_loop(str, delimiter, i + 1, str[i], Append(text, str[i]), value)

\* From<(&str, char)> for ValueTextListData: the items.
ValueTextListData_from(str, delimiter) ==
    IF str = <<>> THEN <<<<>>>>
    ELSE IF str[1] = delimiter
    THEN textlist_loop(str, delimiter, 2, str[1], <<>>,
                       IF Len(str) = 1 THEN <<<<>>, <<>>>> ELSE <<<<>>>>)
    ELSE IF Len(str) = 1 THEN <<unescape(<<str[1]>>)>>
    ELSE textlist_loop(str, delimiter, 2, str[1], <<str[1]>>, <<>>)

\* TryFrom<(&str, char, char)> for ValueListComponentData: the items of
\* the text split at delimiter_parent, each split again at delimiter_child.
ValueListComponentData_try_from(str, delimiter_parent, delimiter_child) ==
    [k \in 1..Len(ValueTextListData_from(str, delimiter_parent)) |->
        ValueTextListData_from(ValueTextListData_from(str, delimiter_parent)[k], delimiter_child)]

Delimiters == {UNESCAPED_SEMICOLON, UNESCAPED_COMMA}

ListStrings == SeqsUpTo({"a", UNESCAPED_BACKSLASH, UNESCAPED_SEMICOLON, UNESCAPED_COMMA}, MaxList)

InitList ==
    \E str \in ListStrings : \E delimiter \in Delimiters :
        /\ client = None
        /\ properties = <<>>
        /\ pre = <<>>
        /\ op = Op("text", TextOperand(str), TRUE, delimiter, NoProperty, FALSE, None, <<>>)
        /\ parsed = FALSE

ParseTextList ==
    /\ op.kind = "text"
    /\ op' = [op EXCEPT !.kind = "textlist",
                        !.card = ValueTextListData_from(op.arg.value.text, op.err)]
    /\ UNCHANGED <<client, properties, pre, parsed>>

\* The same string as a list of lists, split at ';' and then at ','.
ParseListComponent ==
    /\ op.kind = "text"
    /\ op' = [op EXCEPT !.kind = "listcomponent",
                        !.card = ValueListComponentData_try_from(op.arg.value.text, UNESCAPED_SEMICOLON, UNESCAPED_COMMA)]
    /\ UNCHANGED <<client, properties, pre, parsed>>

NextList == ParseTextList \/ ParseListComponent

SpecList == InitList /\ [][NextList]_vars

\* The positions of the delimiters of str that no backslash precedes.
SplitPoints(str, delimiter) ==
    {k \in 1..Len(str) :
        str[k] = delimiter /\ (k = 1 \/ str[k - 1] # UNESCAPED_BACKSLASH)}

\* The items of str from position start: the unescaped texts between the
\* split points.
RECURSIVE ItemsFrom(_, _, _)
ItemsFrom(str, delimiter, start) ==
    IF \E k \in SplitPoints(str, delimiter) : k >= start
    THEN <<unescape(SubSeq(str, start, First({k \in SplitPoints(str, delimiter) : k >= start}) - 1))>>
            \o ItemsFrom(str, delimiter, First({k \in SplitPoints(str, delimiter) : k >= start}) + 1)
    ELSE <<unescape(SubSeq(str, start, Len(str)))>>

\* C17: the items of a text list are the unescaped texts between the
\* delimiters that no backslash precedes; a delimiter after a backslash, the
\* last character included, stays in its item.
C17_SplitAtUnescaped ==
    op.kind = "textlist" => op.card = ItemsFrom(op.arg.value.text, op.err, 1)

\* The pieces of str from position start between the split points, with
\* their backslashes left in place.
RECURSIVE PiecesFrom(_, _, _)
PiecesFrom(str, delimiter, start) ==
    IF \E k \in SplitPoints(str, delimiter) : k >= start
    THEN <<SubSeq(str, start, First({k \in SplitPoints(str, delimiter) : k >= start}) - 1)>>
            \o PiecesFrom(str, delimiter, First({k \in SplitPoints(str, delimiter) : k >= start}) + 1)
    ELSE <<SubSeq(str, start, Len(str))>>

\* The components of a list of lists: the pieces between the semicolons
\* that no backslash precedes, each split into its items at the commas that
\* no backslash precedes.
Components(str) ==
    [k \in 1..Len(PiecesFrom(str, UNESCAPED_SEMICOLON, 1)) |->
        ItemsFrom(PiecesFrom(str, UNESCAPED_SEMICOLON, 1)[k], UNESCAPED_COMMA, 1)]

\* C28: in a list of lists a semicolon or comma after a backslash is text
\* of its item: it starts neither a new component nor a new item, and the
\* item holds the character itself.
C28_EscapedLiteral ==
    op.kind = "listcomponent" => op.card = Components(op.arg.value.text)


\* ------------------------------------------------------------------------
\* The grammar of cards with its error breadcrumbs (src/parse/vcard.rs,
\* src/parse/property.rs, src/error.rs) and the calls that parse the text
\* of one card or of several concatenated cards.  A text is a sequence of
\* lines; a failure carries the input at the point of the mismatch (rest)
\* and the rule names pushed by the enclosing contexts (ctx), innermost
\* first.  The blocks of the input are drawn as a sequence (pre);
\* ParseVcard applies Vcard::try_from to their concatenation and
\* ParseVcards the strict call; op.card records the breadcrumbs, the cards
\* and the unconsumed input.
\* ------------------------------------------------------------------------
\* Most property lines of a block, and most blocks of an input.
MaxBody == 1

MaxBlocks == 2

PROPERTY_BEGIN == "PROPERTY_BEGIN"

PROPERTY_BEGIN_MISSING == "PROPERTY_BEGIN_MISSING"

PROPERTY_END == "PROPERTY_END"

PROPERTY_END_MISSING == "PROPERTY_END_MISSING"

PROPERTY_VERSION == "PROPERTY_VERSION"

PROPERTY_VERSION_MISSING == "PROPERTY_VERSION_MISSING"

VCARD == "VCARD"

VCARDS == "VCARDS"

\* A successful parse: the remaining input and the value.
ParseOk(rest, val) == [ok |-> TRUE, err |-> "", ctx |-> <<>>, rest |-> rest, val |-> val]

\* VcardError::from_error_kind: a ParseError that holds the input.
from_error_kind(input) ==
    [ok |-> FALSE, err |-> "ParseError", ctx |-> <<>>, rest |-> input, val |-> <<>>]

\* VcardError::add_context: the rule name is pushed on the list.
add_context(ctx, other) == [other EXCEPT !.ctx = Append(other.ctx, ctx)]

\* nom's context(ctx, parser) on the result r of the parser.
context(ctx, r) == IF r.ok THEN r ELSE add_context(ctx, r)

\* tag_no_case(name) on the name of the first line.
tag_name(text, name) ==
    IF text # <<>> /\ Head(text).group = None /\ Head(text).name = name
    THEN ParseOk(text, name)
    ELSE from_error_kind(text)

\* colon, tag(value) and line_ending after the name of the first line.
tag_value(text, value, r) ==
    IF ~r.ok THEN r
    ELSE IF Head(text).parameters = <<>> /\ Head(text).value = value
    THEN ParseOk(Tail(text), Head(text))
    ELSE from_error_kind(text)

property_name_begin(text) == context(PROPERTY_BEGIN_MISSING, tag_name(text, "BEGIN"))

property_name_version(text) == context(PROPERTY_VERSION_MISSING, tag_name(text, "VERSION"))

property_name_end(text) == context(PROPERTY_END_MISSING, tag_name(text, "END"))

property_begin(text) ==
    context(PROPERTY_BEGIN, tag_value(text, BeginLine.value, property_name_begin(text)))

property_version(text) ==
    context(PROPERTY_VERSION, tag_value(text, VersionLine.value, property_name_version(text)))

\* property_end without its breadcrumbs.
property_end_bare(text) == tag_value(text, EndLine.value, tag_name(text, "END"))

property_end(text) ==
    context(PROPERTY_END, tag_value(text, EndLine.value, property_name_end(text)))

\* many0(property): the position of the first line that is no property
\* line, past the end when every line is one.
many0_property(text) ==
    IF \E k \in 1..Len(text) : text[k].name \in FixedNames
    THEN First({k \in 1..Len(text) : text[k].name \in FixedNames})
    ELSE Len(text) + 1

\* The tuple of parse::vcard::vcard, one operator per member; each takes
\* the result r of the member before it.
vcard_end(data, r) == IF r.ok THEN ParseOk(r.rest, data) ELSE r

vcard_properties(text, stop) ==
    vcard_end(SubSeq(text, 1, stop - 1), property_end(SubSeq(text, stop, Len(text))))

vcard_version(r) == IF r.ok THEN vcard_properties(r.rest, many0_property(r.rest)) ELSE r

vcard_begin(r) == IF r.ok THEN vcard_version(property_version(r.rest)) ELSE r

\* parse::vcard::vcard
vcard(text) == context(VCARD, vcard_begin(property_begin(text)))

\* many1(vcard) after the first card: the cards are collected until vcard
\* fails, and the input where it failed is handed back.
RECURSIVE many1_vcard(_, _)
RECURSIVE many1_next(_, _, _)
many1_next(text, acc, r) ==
    IF r.ok THEN many1_vcard(r.rest, Append(acc, r.val)) ELSE ParseOk(text, acc)

many1_vcard(text, acc) == many1_next(text, acc, vcard(text))

many1_first(r) == IF r.ok THEN many1_vcard(r.rest, <<r.val>>) ELSE r

\* parse::vcard::vcards
vcards(text) == context(VCARDS, many1_first(vcard(text)))

\* The result of a call: the cards, or the error with its breadcrumbs.
CallOk(cards, rest) == [ok |-> TRUE, err |-> "", ctx |-> <<>>, rest |-> rest, cards |-> cards]

CallErr(err, ctx, rest) == [ok |-> FALSE, err |-> err, ctx |-> ctx, rest |-> rest, cards |-> <<>>]

\* The card or the error of a construction with result c.
call_card(c, rest) ==
    IF c.ok THEN CallOk(<<c.properties>>, rest) ELSE CallErr(c.err, <<>>, rest)

\* TryFrom<&str> for Vcard, with the breadcrumbs of a parse error.
try_from_parsed(r) ==
    IF r.ok THEN call_card(FromData(None, Ok(r.val)), r.rest)
    ELSE CallErr(r.err, r.ctx, r.rest)

Vcard_try_from_text(text) == try_from_parsed(vcard(text))

\* The loop over the parsed cards: each is constructed, and the first
\* failure is returned.
RECURSIVE cards_from(_, _)
RECURSIVE cards_next(_, _, _)
cards_next(c, data, rest) ==
    IF c.ok THEN cards_from(Tail(data), rest) ELSE CallErr(c.err, <<>>, rest)

cards_from(data, rest) ==
    IF data = <<>> THEN CallOk(<<>>, rest)
    ELSE cards_next(FromData(None, Ok(Head(data))), data, rest)

RECURSIVE cards_of(_)
cards_of(data) ==
    IF data = <<>> THEN <<>>
    ELSE <<FromData(None, Ok(Head(data))).properties>> \o cards_of(Tail(data))

cards_all(data, r) == IF r.ok THEN CallOk(cards_of(data), r.rest) ELSE r

\* The strict call over concatenated cards: the grammar entry vcards, then
\* the construction of every card.
parse_vcards_parsed(r) ==
    IF r.ok THEN cards_all(r.val, cards_from(r.val, r.rest))
    ELSE CallErr(r.err, r.ctx, r.rest)

parse_vcards(text) == parse_vcards_parsed(vcards(text))

Version3Line == Line(None, "VERSION", <<>>, <<"3", ".", "0">>)

FnLine == Line(None, PropertyName_FN, <<>>, <<"a">>)

\* A line that the grammar accepts and the construction rejects.
BadLine == Line(None, PropertyName_ROLE, <<PidParam(<<"x">>)>>, <<"a">>)

\* The blocks: BEGIN, a VERSION line or none, property lines, END or none.
BlockHeads == {<<BeginLine, VersionLine>>, <<BeginLine, Version3Line>>, <<BeginLine>>}

BlockBodies == SeqsUpTo({FnLine, BadLine}, MaxBody)

BlockTails == {<<EndLine>>, <<>>}

ParseBlocks == {h \o b \o t : h \in BlockHeads, b \in BlockBodies, t \in BlockTails}

RECURSIVE Concat(_)
Concat(blocks) == IF blocks = <<>> THEN <<>> ELSE Head(blocks) \o Concat(Tail(blocks))

InitParse ==
    \E blocks \in SeqsUpTo(ParseBlocks, MaxBlocks) :
        /\ client = None
        /\ properties = <<>>
        /\ pre = blocks
        /\ op = Op("text", NoProperty, TRUE, "", NoProperty, FALSE, None, <<>>)
        /\ parsed = FALSE

\* The record of a call with result r.
AfterCall(kind, r) ==
    /\ op.kind = "text"
    /\ op' = [op EXCEPT !.kind = kind, !.ok = r.ok, !.err = r.err,
                        !.card = [ctx |-> r.ctx, cards |-> r.cards, rest |-> r.rest]]
    /\ UNCHANGED <<client, properties, pre, parsed>>

ParseVcard == AfterCall("vcard", Vcard_try_from_text(Concat(pre)))

ParseVcards == AfterCall("parse_vcards", parse_vcards(Concat(pre)))

NextParse == ParseVcard \/ ParseVcards

SpecParse == InitParse /\ [][NextParse]_vars

\* The rule names of a breadcrumb list.
Names(ctx) == {ctx[k] : k \in 1..Len(ctx)}

\* A block that Vcard::try_from turns into a card.
GoodBlock(block) == Vcard_try_from_str(None, block).ok

\* C18: when a block of the input of the strict call has a structural or
\* a validation error, the call returns an error and no card.
C18_AllOrNothing ==
    (op.kind = "parse_vcards" /\ \E k \in 1..Len(pre) : ~GoodBlock(pre[k]))
        => (~op.ok /\ op.card.cards = <<>>)

\* C19: a card whose VERSION line holds another value than 4.0 fails with
\* the error VersionInvalid and yields no card.
C19_VersionInvalid ==
    (op.kind = "vcard" /\ Len(pre) >= 1 /\ Len(pre[1]) >= 2 /\ pre[1][2] = Version3Line)
        => (~op.ok /\ op.err = "VersionInvalid" /\ op.card.cards = <<>>)

C29_NoTwoMatch ==
    \A i, j \in 1..Len(properties) : i # j => ~eq(properties[i], properties[j])

\* The positions of the CLIENTPIDMAP properties of a card whose URI is the
\* one of the CLIENTPIDMAP that the construction makes for the client id.
ClientMaps(cl, props) ==
    {k \in 1..Len(props) :
        /\ props[k].name = PropertyName_CLIENTPIDMAP
        /\ props[k].value.client = ClientProperty(cl).val[1].value.client}

\* C30: a card constructed with a client id holds exactly one CLIENTPIDMAP
\* property with the URI of the client, also when it is constructed from
\* the to_string() text of a card built with that client id.
C30_OneClientMap ==
    /\ (op.kind = "try_from" /\ client # None)
          => Cardinality(ClientMaps(client, properties)) = 1
    /\ (op.kind = "reparse" /\ op.ok /\ op.cl # None)
          => Cardinality(ClientMaps(op.cl, op.card)) = 1


\* ------------------------------------------------------------------------
\* Parameters: construction, set_value and add_parameter
\* (src/vcard/parameter, src/traits.rs).  A name and a text are drawn
\* (op.card) together with a property without parameters (properties);
\* ParameterTryFrom constructs the parameter, SetValue updates it and
\* AddParameter adds it to the property (op.arg before, op.ret after).
\* ------------------------------------------------------------------------
\* ValueType::TYPES
ValueType_TYPES ==
    {"BOOLEAN", "DATE-AND-OR-TIME", "DATE-TIME", "DATE", "FLOAT", "INTEGER",
     "LANGUAGE-TAG", "TEXT", "TIME", "TIMESTAMP", "URI", "UTC-OFFSET"}

\* str::to_uppercase on the words of the model.
to_uppercase(str) ==
    [k \in 1..Len(str) |->
        IF str[k] = "text" THEN "TEXT" ELSE IF str[k] = "uri" THEN "URI" ELSE str[k]]

\* The set_value of the parameter data of each name.
ParameterPidData_set_value(parameter, value) ==
    IF value.kind # "ValuePid" THEN Err("ValueNotAllowed")
    ELSE Ok([parameter EXCEPT !.value = value])

ParameterPrefData_set_value(parameter, value) ==
    IF value.kind # "ValueInteger" THEN Err("ValueNotAllowed")
    ELSE IF value.integer < 1 \/ value.integer > 100 THEN Err("ValueInvalid")
    ELSE Ok([parameter EXCEPT !.value = value])

ParameterCalScaleData_set_value(parameter, value) ==
    IF value.kind # "ValueText" THEN Err("ValueNotAllowed")
    ELSE IF value.text # <<"gregorian">> THEN Err("ValueInvalid")
    ELSE Ok([parameter EXCEPT !.value = value])

ValueParameterData_set_value(parameter, value) ==
    IF value.kind # "ValueText" THEN Err("ValueNotAllowed")
    ELSE IF to_uppercase(value.text) \notin {<<t>> : t \in ValueType_TYPES} THEN Err("ValueInvalid")
    ELSE Ok([parameter EXCEPT !.value = value])

XNameParameterData_set_value(parameter, value) ==
    IF value.kind # "ValueText" THEN Err("ValueNotAllowed")
    ELSE Ok([parameter EXCEPT !.value = value])

\* HasValue::set_value for Parameter
Parameter_set_value(parameter, value) ==
    IF parameter.name = ParameterName_PID THEN ParameterPidData_set_value(parameter, value)
    ELSE IF parameter.name = ParameterName_PREF THEN ParameterPrefData_set_value(parameter, value)
    ELSE IF parameter.name = ParameterName_CALSCALE
        THEN ParameterCalScaleData_set_value(parameter, value)
    ELSE IF parameter.name = ParameterName_VALUE
        THEN ValueParameterData_set_value(parameter, value)
    ELSE XNameParameterData_set_value(parameter, value)

\* Names and texts given to Parameter::try_from, and values given to
\* set_value.
ExtensionNames == {"X-T"}

ParamNames ==
    {ParameterName_PID, ParameterName_PREF, ParameterName_CALSCALE, ParameterName_VALUE,
     "FOO"} \cup ExtensionNames

ParamTexts ==
    {<<"1">>, <<"0">>, <<"1", "0", "1">>, <<"gregorian">>, <<"julian">>, <<"text">>, <<"foo">>}

ParamValues ==
    {ValueInteger(0), ValueInteger(50), ValueInteger(101), ValueText(<<"gregorian">>),
     ValueText(<<"julian">>), ValueText(<<"uri">>), ValueText(<<"foo">>),
     ValuePid(<<[id |-> 1, cid |-> None]>>)}

ParamProps ==
    {[NoProperty EXCEPT !.name = n] :
        n \in {PropertyName_PRODID, PropertyName_ROLE, PropertyName_DEATHDATE}}

NoParameter == [name |-> "", value |-> ValueText(<<>>)]

InitParam ==
    \E property \in ParamProps : \E name \in ParamNames : \E text \in ParamTexts :
        /\ client = None
        /\ properties = <<property>>
        /\ pre = <<>>
        /\ op = Op("pair", NoProperty, TRUE, "", NoProperty, FALSE, None,
                   [name |-> name, text |-> text, parameter |-> NoParameter,
                    before |-> NoParameter, value |-> ValueText(<<>>)])
        /\ parsed = FALSE

\* The record of Parameter::try_from with result r.
AfterParameter(r) ==
    /\ op.kind = "pair"
    /\ op' = [op EXCEPT !.kind = "parameter", !.ok = r.ok, !.err = r.err,
                        !.card.parameter = IF r.ok THEN r.val ELSE NoParameter]
    /\ UNCHANGED <<client, properties, pre, parsed>>

ParameterTryFrom == AfterParameter(Parameter_try_from(op.card.name, op.card.text))

\* The record of set_value(value) with result r: a failed call leaves the
\* parameter as it was.
AfterSetValue(value, r) ==
    /\ op.kind = "parameter"
    /\ op.ok
    /\ op' = [op EXCEPT !.kind = "set_value", !.ok = r.ok, !.err = r.err,
                        !.card.before = op.card.parameter,
                        !.card.value = value,
                        !.card.parameter = IF r.ok THEN r.val ELSE op.card.parameter]
    /\ UNCHANGED <<client, properties, pre, parsed>>

SetValue ==
    \E value \in ParamValues : AfterSetValue(value, Parameter_set_value(op.card.parameter, value))

\* The record of add_parameter with result r: a failed call leaves the
\* property as it was.
AfterAddParameter(r) ==
    /\ op.kind \in {"parameter", "set_value"}
    /\ op.card.parameter # NoParameter
    /\ op' = [op EXCEPT !.kind = "add_parameter", !.ok = r.ok, !.err = r.err,
                        !.arg = properties[1],
                        !.ret = IF r.ok THEN r.val ELSE properties[1]]
    /\ properties' = <<IF r.ok THEN r.val ELSE properties[1]>>
    /\ UNCHANGED <<client, pre, parsed>>

AddParameter == AfterAddParameter(add_parameter(properties[1], op.card.parameter))

NextParam == ParameterTryFrom \/ SetValue \/ AddParameter

SpecParam == InitParam /\ [][NextParam]_vars

\* The constraint of the name of a parameter on its value.
Constrained(parameter) ==
    /\ parameter.name = ParameterName_PREF
          => (/\ parameter.value.kind = "ValueInteger"
              /\ parameter.value.integer >= 1
              /\ parameter.value.integer <= 100)
    /\ parameter.name = ParameterName_CALSCALE
          => (parameter.value.kind = "ValueText" /\ parameter.value.text = <<"gregorian">>)
    /\ parameter.name = ParameterName_VALUE
          => (/\ parameter.value.kind = "ValueText"
              /\ to_uppercase(parameter.value.text) \in {<<t>> : t \in ValueType_TYPES})

\* C24: a parameter that was constructed or updated with success satisfies
\* the constraint of its name.
C24_Constrained ==
    (op.kind \in {"parameter", "set_value"} /\ op.ok) => Constrained(op.card.parameter)

\* C25: add_parameter accepts a parameter whose name is in the allowed set
\* of the property, or that is an extension parameter when ANY is in the
\* set; every other parameter is rejected with ParameterTypeNotAllowed and
\* the property is left as it was.
C25_AllowedOnly ==
    op.kind = "add_parameter" =>
        IF \/ op.card.parameter.name \in allowed_parameters(op.arg)
           \/ /\ ParameterName_ANY \in allowed_parameters(op.arg)
              /\ op.card.parameter.name \in ExtensionNames
        THEN op.ok /\ op.ret.parameters = Append(op.arg.parameters, op.card.parameter)
        ELSE ~op.ok /\ op.err = "ParameterTypeNotAllowed" /\ op.ret = op.arg

\* C27: the construction of a parameter whose name is neither known nor an
\* extension name fails with ParameterTypeUnknown; an extension name gives
\* a text valued parameter of that name.
C27_UnknownName ==
    op.kind = "parameter" =>
        /\ op.card.name \in ExtensionNames
              => (/\ op.ok
                  /\ op.card.parameter.name = op.card.name
                  /\ op.card.parameter.value.kind = "ValueText")
        /\ op.card.name \notin KnownParameterNames \cup ExtensionNames
              => (~op.ok /\ op.err = "ParameterTypeUnknown")

\* ------------------------------------------------------------------------
\* Values of properties: construction and set_value of ADR, N, KEY and
\* RELATED (src/vcard/property).  A name, the parameters and the text of
\* the value are drawn (op.card); PropertyTryFrom constructs the property
\* (properties holds it when the construction succeeds), AddValueParameter
\* adds a VALUE parameter to it and PropertySetValue sets a value (op.arg
\* before, op.ret after).
\* ------------------------------------------------------------------------
\* Most components of a list of lists, and most parameters of a property.
MaxComponents == 8

MaxValueParams == 1

PropertyName_ADR == "ADR"

PropertyName_N == "N"

PropertyName_KEY == "KEY"

PropertyName_RELATED == "RELATED"

ValueType_TEXT == <<"TEXT">>

ValueType_URI == <<"URI">>

\* TryFrom<&str> for ValueUriData
ValueUriData_try_from(str) ==
    IF Url_parse(str) # None THEN Ok(ValueUri(<<Url_parse(str)[1]>>))
    ELSE Err("ValueMalformed")

\* HasParameters::has_value_type: the displayed value of the first VALUE
\* parameter.
has_value_type(property) ==
    IF \E k \in 1..Len(property.parameters) : property.parameters[k].name = ParameterName_VALUE
    THEN Some(Value_fmt(property.parameters[
            First({k \in 1..Len(property.parameters) :
                      property.parameters[k].name = ParameterName_VALUE})].value))
    ELSE None

\* Variant of PropertyAdrData::set_value without the test of the number of
\* components.
PropertyAdrData_set_value_any(property, value) ==
    IF value.kind # "ValueListComponent" THEN Err("ValueNotAllowed")
    ELSE IF has_value_type(property) # None /\ has_value_type(property)[1] # ValueType_TEXT
    THEN Err("ValueMismatch")
    ELSE Ok([property EXCEPT !.value = value])

\* HasValue::set_value for PropertyAdrData
PropertyAdrData_set_value(property, value) ==
    IF value.kind # "ValueListComponent" THEN Err("ValueNotAllowed")
    ELSE IF has_value_type(property) # None /\ has_value_type(property)[1] # ValueType_TEXT
    THEN Err("ValueMismatch")
    ELSE IF Len(value.list) # 7 THEN Err("ValueInvalid")
    ELSE Ok([property EXCEPT !.value = value])

\* HasValue::set_value for PropertyNData
PropertyNData_set_value(property, value) ==
    IF value.kind # "ValueListComponent" THEN Err("ValueNotAllowed")
    ELSE IF has_value_type(property) # None /\ has_value_type(property)[1] # ValueType_TEXT
    THEN Err("ValueMismatch")
    ELSE IF Len(value.list) # 5 THEN Err("ValueInvalid")
    ELSE Ok([property EXCEPT !.value = value])

\* HasValue::set_value for PropertyKeyData; PropertyRelatedData has the
\* same body.
PropertyKeyData_set_value(property, value) ==
    IF value.kind # "ValueText" /\ value.kind # "ValueUri" THEN Err("ValueNotAllowed")
    ELSE IF /\ has_value_type(property) # None
            /\ value.kind = "ValueText"
            /\ has_value_type(property)[1] # ValueType_TEXT
    THEN Err("ValueMismatch")
    ELSE IF /\ has_value_type(property) # None
            /\ value.kind = "ValueUri"
            /\ has_value_type(property)[1] # ValueType_URI
    THEN Err("ValueMismatch")
    ELSE Ok([property EXCEPT !.value = value])

\* HasValue::set_value for Property
Property_set_value(property, value) ==
    IF property.name = PropertyName_ADR THEN PropertyAdrData_set_value(property, value)
    ELSE IF property.name = PropertyName_N THEN PropertyNData_set_value(property, value)
    ELSE PropertyKeyData_set_value(property, value)

\* The components of Default for PropertyAdrData (7) and PropertyNData (5).
DefaultComponents(n) == [k \in 1..n |-> <<<<>>>>]

\* TryFrom for PropertyAdrData after add_parameters gave added.
PropertyAdrData_try_from(added, value) ==
    IF ~added.ok THEN added
    ELSE PropertyAdrData_set_value(added.val,
            ValueListComponent(ValueListComponentData_try_from(value, UNESCAPED_SEMICOLON,
                                                               UNESCAPED_COMMA)))

\* TryFrom for PropertyNData after add_parameters gave added.
PropertyNData_try_from(added, value) ==
    IF ~added.ok THEN added
    ELSE PropertyNData_set_value(added.val,
            ValueListComponent(ValueListComponentData_try_from(value, UNESCAPED_SEMICOLON,
                                                               UNESCAPED_COMMA)))

\* TryFrom for PropertyKeyData after add_parameters gave added;
\* PropertyRelatedData has the same body.  With a VALUE parameter that is
\* neither TEXT nor URI no value is set and the default value stays.
PropertyKeyData_try_from(added, value) ==
    IF ~added.ok THEN added
    ELSE IF has_value_type(added.val) # None
    THEN IF has_value_type(added.val)[1] = ValueType_TEXT
         THEN PropertyKeyData_set_value(added.val, ValueTextData_from(value))
         ELSE IF has_value_type(added.val)[1] = ValueType_URI
         THEN IF ValueUriData_try_from(value).ok
              THEN PropertyKeyData_set_value(added.val, ValueUriData_try_from(value).val)
              ELSE ValueUriData_try_from(value)
         ELSE added
    ELSE PropertyKeyData_set_value(added.val,
            IF ValueUriData_try_from(value).ok THEN ValueUriData_try_from(value).val
            ELSE ValueTextData_from(value))

\* The per-name TryFrom of the four properties: the default of the name,
\* the parameters added, the value set.
ValueProperty_try_from(name, parameters, value) ==
    IF name = PropertyName_ADR
    THEN PropertyAdrData_try_from(
            add_parameters([group |-> None, name |-> name, parameters |-> <<>>,
                            value |-> ValueListComponent(DefaultComponents(7))], parameters),
            value)
    ELSE IF name = PropertyName_N
    THEN PropertyNData_try_from(
            add_parameters([group |-> None, name |-> name, parameters |-> <<>>,
                            value |-> ValueListComponent(DefaultComponents(5))], parameters),
            value)
    ELSE PropertyKeyData_try_from(
            add_parameters([group |-> None, name |-> name, parameters |-> <<>>,
                            value |-> ValueText(<<>>)], parameters),
            value)

\* The inputs: names, VALUE parameters, texts and values.
ValuePropertyNames ==
    {PropertyName_ADR, PropertyName_N, PropertyName_KEY, PropertyName_RELATED}

ValueTypeTexts == {<<"TEXT">>, <<"URI">>, <<"text">>, <<"DATE">>}

ValueParameter(text) == [name |-> ParameterName_VALUE, value |-> ValueText(text)]

Semicolons(n) == [k \in 1..n |-> UNESCAPED_SEMICOLON]

ValueStrings ==
    {Semicolons(n) : n \in 0..(MaxComponents - 1)} \cup {<<"a">>, <<"urn:c1">>, <<"HTTP://H">>}

SetValues ==
    {ValueListComponent(DefaultComponents(n)) : n \in 0..MaxComponents}
        \cup {ValueText(<<"a">>), ValueUri(<<"urn:c1">>), ValueInteger(1)}

InitValue ==
    \E name \in ValuePropertyNames :
    \E parameters \in {<<>>} \cup {<<ValueParameter(t)>> : t \in ValueTypeTexts} :
    \E text \in ValueStrings :
        /\ client = None
        /\ properties = <<>>
        /\ pre = <<>>
        /\ op = Op("value_input", NoProperty, TRUE, "", NoProperty, FALSE, None,
                   [name |-> name, parameters |-> parameters, text |-> text,
                    value |-> ValueText(<<>>)])
        /\ parsed = FALSE

\* The record of the construction with result r.
AfterPropertyTryFrom(r) ==
    /\ op.kind = "value_input"
    /\ op' = [op EXCEPT !.kind = "property", !.ok = r.ok, !.err = r.err]
    /\ properties' = IF r.ok THEN <<r.val>> ELSE <<>>
    /\ UNCHANGED <<client, pre, parsed>>

PropertyTryFrom ==
    AfterPropertyTryFrom(ValueProperty_try_from(op.card.name, op.card.parameters, op.card.text))

\* The record of add_parameter of a VALUE parameter with result r.
AfterAddValueParameter(r) ==
    /\ properties # <<>>
    /\ Len(properties[1].parameters) < MaxValueParams
    /\ op' = [op EXCEPT !.kind = "property_add_parameter", !.ok = r.ok, !.err = r.err,
                        !.arg = properties[1],
                        !.ret = IF r.ok THEN r.val ELSE properties[1]]
    /\ properties' = <<IF r.ok THEN r.val ELSE properties[1]>>
    /\ UNCHANGED <<client, pre, parsed>>

AddValueParameter ==
    \E t \in ValueTypeTexts :
        AfterAddValueParameter(add_parameter(properties[1], ValueParameter(t)))

\* The record of set_value(value) with result r: a failed call leaves the
\* property as it was.
AfterPropertySetValue(value, r) ==
    /\ properties # <<>>
    /\ op' = [op EXCEPT !.kind = "property_set_value", !.ok = r.ok, !.err = r.err,
                        !.arg = properties[1],
                        !.ret = IF r.ok THEN r.val ELSE properties[1],
                        !.card.value = value]
    /\ properties' = <<IF r.ok THEN r.val ELSE properties[1]>>
    /\ UNCHANGED <<client, pre, parsed>>

PropertySetValue ==
    \E value \in SetValues :
        AfterPropertySetValue(value, Property_set_value(properties[1], value))

NextValue == PropertyTryFrom \/ AddValueParameter \/ PropertySetValue

SpecValue == InitValue /\ [][NextValue]_vars

\* The number of outer components of ADR and of N.
Arity(name) == IF name = PropertyName_ADR THEN 7 ELSE 5

ListNames == {PropertyName_ADR, PropertyName_N}

\* The stored ADR has 7 components and the stored N has 5.
ArityKept ==
    \A k \in 1..Len(properties) :
        properties[k].name \in ListNames
            => (/\ properties[k].value.kind = "ValueListComponent"
                /\ Len(properties[k].value.list) = Arity(properties[k].name))

\* A construction from a text of another number of components, and a
\* set_value of a list of another number of components, failed with one of
\* the errors of errs, and the set_value left the property as it was.
ArityRejected(errs) ==
    /\ (/\ op.kind = "property"
        /\ op.card.name \in ListNames
        /\ Len(op.card.text) + 1 # Arity(op.card.name))
            => (~op.ok /\ op.err \in errs /\ properties = <<>>)
    /\ (/\ op.kind = "property_set_value"
        /\ op.arg.name \in ListNames
        /\ op.card.value.kind = "ValueListComponent"
        /\ Len(op.card.value.list) # Arity(op.arg.name))
            => (~op.ok /\ op.err \in errs /\ op.ret = op.arg /\ properties = <<op.arg>>)

DeclaredKind(text) ==
    IF to_uppercase(text) = ValueType_TEXT THEN "ValueText"
    ELSE IF to_uppercase(text) = ValueType_URI THEN "ValueUri"
    ELSE "other"

\* C26: a KEY or RELATED constructed with a VALUE parameter holds the
\* supplied value as the kind that the parameter declares; in every other
\* case the construction fails with ValueMismatch.
C26_DeclaredKind ==
    (/\ op.kind = "property"
     /\ op.card.name \in {PropertyName_KEY, PropertyName_RELATED}
     /\ op.card.parameters # <<>>)
        => IF op.ok
           THEN /\ properties[1].value.kind = DeclaredKind(op.card.parameters[1].value.text)
                /\ IF properties[1].value.kind = "ValueUri"
                   THEN Url_parse(op.card.text) = Some(properties[1].value.text[1])
                   ELSE properties[1].value.text = unescape(op.card.text)
           ELSE op.err = "ValueMismatch"

\* ------------------------------------------------------------------------
\* The grammar of a property line, character by character
\* (src/parse/property.rs, src/parse/parameter.rs, src/parse/value.rs).
\* A line is drawn (op.arg.value.text): a name followed by ":a" and a line
\* break, or a TEL line with a TYPE parameter.  ParseLine applies property
\* to it and ParameterTypeData::try_from to the text of its TYPE parameter
\* (op.card).
\* ------------------------------------------------------------------------
\* Longest name of a drawn line, and longest text of a drawn TYPE parameter.
MaxName == 4

MaxQuoted == 5

LowerLetters ==
    <<"a", "b", "c", "d", "e", "f", "g", "h", "i", "j", "k", "l", "m",
      "n", "o", "p", "q", "r", "s", "t", "u", "v", "w", "x", "y", "z">>

UpperLetters ==
    <<"A", "B", "C", "D", "E", "F", "G", "H", "I", "J", "K", "L", "M",
      "N", "O", "P", "Q", "R", "S", "T", "U", "V", "W", "X", "Y", "Z">>

\* u8::to_ascii_uppercase, by which tag_no_case compares.
to_ascii_uppercase(c) ==
    IF \E k \in 1..26 : LowerLetters[k] = c
    THEN UpperLetters[First({k \in 1..26 : LowerLetters[k] = c})]
    ELSE c

\* nom::character::is_alphanumeric
is_alphanumeric(c) ==
    \/ \E k \in 1..26 : c = LowerLetters[k] \/ c = UpperLetters[k]
    \/ \E k \in 1..10 : c = Digits[k]

\* is_alphanumeric_dash
is_alphanumeric_dash(c) == c = "-" \/ is_alphanumeric(c)

\* is_qsafe_char
is_qsafe_char(c) == c \notin {"\n", "\r", "\t", "\""}

\* is_safe_char
is_safe_char(c) == c \notin {"\n", "\r", "\t", "\"", ";", ":"}

\* The result of a parser: the matched text and the rest of the input, or a
\* mismatch that leaves the input.
Matched(val, rest) == [ok |-> TRUE, val |-> val, rest |-> rest]

Mismatch(i) == [ok |-> FALSE, val |-> <<>>, rest |-> i]

\* The first n characters of i matched.
MatchedPrefix(i, n) == Matched(SubSeq(i, 1, n), SubSeq(i, n + 1, Len(i)))

\* take_while(test): the length of the longest prefix of i whose
\* characters pass test.
take_while(test(_), i) ==
    IF \E k \in 1..Len(i) : ~test(i[k])
    THEN First({k \in 1..Len(i) : ~test(i[k])}) - 1
    ELSE Len(i)

\* take_while1(is_alphanumeric_dash)
take_while1_alphanumeric_dash(i) ==
    IF take_while(is_alphanumeric_dash, i) >= 1
    THEN MatchedPrefix(i, take_while(is_alphanumeric_dash, i))
    ELSE Mismatch(i)

\* tag(t): the input begins with t.
tag(t, i) ==
    IF Len(i) >= Len(t) /\ SubSeq(i, 1, Len(t)) = t THEN MatchedPrefix(i, Len(t))
    ELSE Mismatch(i)

\* tag_no_case(t): the input begins with t, the case of letters ignored.
tag_no_case(t, i) ==
    IF Len(i) >= Len(t) /\ \A k \in 1..Len(t) : to_ascii_uppercase(i[k]) = to_ascii_uppercase(t[k])
    THEN MatchedPrefix(i, Len(t))
    ELSE Mismatch(i)

\* The first of the tags, in their order, that tag_no_case matches (alt).
alt_tag_no_case(tags, i) ==
    IF \E k \in 1..Len(tags) : tag_no_case(tags[k], i).ok
    THEN tag_no_case(tags[First({k \in 1..Len(tags) : tag_no_case(tags[k], i).ok})], i)
    ELSE Mismatch(i)

\* The names of property_name_adr to property_name_xml, in the order of
\* the alternatives of property_name.
PropertyNameTags ==
    <<<<"A", "D", "R">>, <<"A", "N", "N", "I", "V", "E", "R", "S", "A", "R", "Y">>,
      <<"B", "D", "A", "Y">>, <<"B", "I", "R", "T", "H", "P", "L", "A", "C", "E">>,
      <<"C", "A", "L", "A", "D", "R", "U", "R", "I">>, <<"C", "A", "L", "U", "R", "I">>,
      <<"C", "A", "T", "E", "G", "O", "R", "I", "E", "S">>,
      <<"C", "L", "I", "E", "N", "T", "P", "I", "D", "M", "A", "P">>,
      <<"C", "O", "N", "T", "A", "C", "T", "-", "U", "R", "I">>,
      <<"D", "E", "A", "T", "H", "D", "A", "T", "E">>,
      <<"D", "E", "A", "T", "H", "P", "L", "A", "C", "E">>, <<"E", "M", "A", "I", "L">>,
      <<"E", "X", "P", "E", "R", "T", "I", "S", "E">>, <<"F", "B", "U", "R", "L">>,
      <<"F", "N">>, <<"G", "E", "N", "D", "E", "R">>, <<"G", "E", "O">>,
      <<"H", "O", "B", "B", "Y">>, <<"I", "M", "P", "P">>,
      <<"I", "N", "T", "E", "R", "E", "S", "T">>, <<"K", "E", "Y">>,
      <<"K", "I", "N", "D">>, <<"L", "A", "N", "G">>, <<"L", "O", "G", "O">>,
      <<"M", "E", "M", "B", "E", "R">>, <<"N", "I", "C", "K", "N", "A", "M", "E">>,
      <<"N", "O", "T", "E">>, <<"N">>,
      <<"O", "R", "G", "-", "D", "I", "R", "E", "C", "T", "O", "R", "Y">>,
      <<"O", "R", "G">>, <<"P", "H", "O", "T", "O">>, <<"P", "R", "O", "D", "I", "D">>,
      <<"R", "E", "L", "A", "T", "E", "D">>, <<"R", "E", "V">>, <<"R", "O", "L", "E">>,
      <<"S", "O", "U", "N", "D">>, <<"S", "O", "U", "R", "C", "E">>, <<"T", "E", "L">>,
      <<"T", "I", "T", "L", "E">>, <<"T", "Z">>, <<"U", "I", "D">>, <<"U", "R", "L">>,
      <<"X", "M", "L">>>>

\* The names of parameter_name_altid to parameter_name_value, in the order
\* of the alternatives of parameter_name.
ParameterNameTags ==
    <<<<"A", "L", "T", "I", "D">>, <<"C", "A", "L", "S", "C", "A", "L", "E">>,
      <<"C", "C">>, <<"G", "E", "O">>, <<"I", "N", "D", "E", "X">>,
      <<"L", "A", "B", "E", "L">>, <<"L", "A", "N", "G", "U", "A", "G", "E">>,
      <<"L", "E", "V", "E", "L">>, <<"M", "E", "D", "I", "A", "T", "Y", "P", "E">>,
      <<"P", "I", "D">>, <<"P", "R", "E", "F">>, <<"S", "O", "R", "T", "-", "A", "S">>,
      <<"T", "Y", "P", "E">>, <<"T", "Z">>, <<"V", "A", "L", "U", "E">>>>

\* property_x_name and parameter_x_name: "x-" in either case and then
\* take_while1(is_alphanumeric_dash), recognised as one text.
x_name(i) ==
    IF tag_no_case(<<"x", "-">>, i).ok /\ take_while(is_alphanumeric_dash, SubSeq(i, 3, Len(i))) >= 1
    THEN MatchedPrefix(i, 2 + take_while(is_alphanumeric_dash, SubSeq(i, 3, Len(i))))
    ELSE Mismatch(i)

\* property_iana_token: not BEGIN, not VERSION, not END at the start of the
\* input, then take_while1(is_alphanumeric_dash).
property_iana_token(i) ==
    IF \/ tag_no_case(<<"B", "E", "G", "I", "N">>, i).ok
       \/ tag_no_case(<<"V", "E", "R", "S", "I", "O", "N">>, i).ok
       \/ tag_no_case(<<"E", "N", "D">>, i).ok
    THEN Mismatch(i)
    ELSE take_while1_alphanumeric_dash(i)

\* The alternatives of property_name after the group: the known names, the
\* x-name, the iana-token.
property_name_alt(i) ==
    IF alt_tag_no_case(PropertyNameTags, i).ok THEN alt_tag_no_case(PropertyNameTags, i)
    ELSE IF x_name(i).ok THEN x_name(i)
    ELSE property_iana_token(i)

\* property_group: take_while1(is_alphanumeric_dash), ".", and a property
\* name ahead (peek).  property_name: the optional group and the name.
RECURSIVE property_name(_)
property_group_dot(i, n) ==
    IF n >= 1 /\ n < Len(i) /\ i[n + 1] = "." /\ property_name(SubSeq(i, n + 2, Len(i))).ok
    THEN Matched(SubSeq(i, 1, n), SubSeq(i, n + 2, Len(i)))
    ELSE Mismatch(i)

property_group(i) == property_group_dot(i, take_while(is_alphanumeric_dash, i))

property_name_grouped(g, n) ==
    IF n.ok THEN [ok |-> TRUE, group |-> IF g.ok THEN Some(g.val) ELSE None,
                  val |-> n.val, rest |-> n.rest]
    ELSE [ok |-> FALSE, group |-> None, val |-> <<>>, rest |-> n.rest]

property_name_after(g) == property_name_grouped(g, property_name_alt(g.rest))

property_name(i) == property_name_after(property_group(i))

\* value_qsafe: a quote, take_while(is_qsafe_char), a quote, recognised as
\* one text, the two quotes included.
value_qsafe(i) ==
    IF /\ tag(<<"\"">>, i).ok
       /\ tag(<<"\"">>, SubSeq(i, 2 + take_while(is_qsafe_char, Tail(i)), Len(i))).ok
    THEN MatchedPrefix(i, 2 + take_while(is_qsafe_char, Tail(i)))
    ELSE Mismatch(i)

\* value_safe
value_safe(i) == MatchedPrefix(i, take_while(is_safe_char, i))

\* parameter_value: alt((value_qsafe, value_safe))
parameter_value(i) == IF value_qsafe(i).ok THEN value_qsafe(i) ELSE value_safe(i)

\* parameter_name: the known names and the x-name.
parameter_name(i) ==
    IF alt_tag_no_case(ParameterNameTags, i).ok THEN alt_tag_no_case(ParameterNameTags, i)
    ELSE x_name(i)

\* parameter: semicolon, parameter_name, equals, parameter_value; the
\* steps after the semicolon, after the name and after the equals sign.
parameter_valued(n, v) ==
    IF v.ok THEN Matched([name |-> n.val, value |-> v.val], v.rest) ELSE Mismatch(v.rest)

parameter_equals(n, e) ==
    IF e.ok THEN parameter_valued(n, parameter_value(e.rest)) ELSE Mismatch(e.rest)

parameter_named(n) ==
    IF n.ok THEN parameter_equals(n, tag(<<"=">>, n.rest)) ELSE Mismatch(n.rest)

parameter(i) ==
    IF tag(<<";">>, i).ok THEN parameter_named(parameter_name(tag(<<";">>, i).rest))
    ELSE Mismatch(i)

\* many0(parameter): the parameters up to the first mismatch, and the
\* input there.
RECURSIVE many0_parameter(_)
many0_parameter_next(p, r) == Matched(<<p.val>> \o r.val, r.rest)

many0_parameter_step(i, p) ==
    IF p.ok THEN many0_parameter_next(p, many0_parameter(p.rest)) ELSE Matched(<<>>, i)

many0_parameter(i) == many0_parameter_step(i, parameter(i))

\* property: property_name, many0(parameter), colon, property_value,
\* line_ending; the steps after the name, the parameters, the colon and
\* the value.
property_ending(n, ps, v, e) ==
    IF e # 0
    THEN [ok |-> TRUE, group |-> n.group, name |-> n.val, parameters |-> ps.val,
          value |-> v.text]
    ELSE [ok |-> FALSE, group |-> None, name |-> <<>>, parameters |-> <<>>, value |-> <<>>]

property_valued(n, ps, str, v) == property_ending(n, ps, v, LineEndingLen(str, v.rest))

property_colon(n, ps, c) ==
    IF c.ok THEN property_valued(n, ps, c.rest, value_from(c.rest, 1))
    ELSE property_ending(n, ps, [text |-> <<>>, rest |-> 0], 0)

property_parameters(n, ps) == property_colon(n, ps, tag(<<":">>, ps.rest))

property_named(n) ==
    IF n.ok THEN property_parameters(n, many0_parameter(n.rest))
    ELSE property_ending(n, Matched(<<>>, <<>>), [text |-> <<>>, rest |-> 0], 0)

property(i) == property_named(property_name(i))

\* Value::ValueTextList
ValueTextList(list) ==
    [kind |-> "ValueTextList", text |-> <<>>, pid |-> <<>>, id |-> 0, client |-> "",
     integer |-> 0, list |-> list]

\* TryFrom<&str> for ParameterTypeData
ParameterTypeData_try_from(str) ==
    [name |-> "TYPE", value |-> ValueTextList(ValueTextListData_from(str, UNESCAPED_COMMA))]

\* The TYPE parameters of a parsed line, as Parameter::try_from builds them.
TypeParameters(parameters) ==
    [k \in 1..Len(SelectSeq(parameters, LAMBDA p : tag_no_case(<<"T", "Y", "P", "E">>, p.name).ok
                                                    /\ Len(p.name) = 4)) |->
        ParameterTypeData_try_from(
            SelectSeq(parameters, LAMBDA p : tag_no_case(<<"T", "Y", "P", "E">>, p.name).ok
                                              /\ Len(p.name) = 4)[k].value)]

\* The lines: every name over NameChars, and a TEL line with every TYPE
\* text over TypeChars.
NameChars == {"N", "n", "E", "D", "X", "-"}

TypeChars == {"\"", "A", ","}

LineEnd == <<":", "a", "\n">>

TypePrefix == <<"T", "E", "L", ";", "T", "Y", "P", "E", "=">>

InitLine ==
    \/ \E name \in SeqsUpTo(NameChars, MaxName) \ {<<>>} :
        /\ client = None
        /\ properties = <<>>
        /\ pre = <<>>
        /\ op = Op("name_line", TextOperand(name \o LineEnd), TRUE, "", NoProperty, FALSE, None,
                   [input |-> name, line |-> property(<<>>), types |-> <<>>])
        /\ parsed = FALSE
    \/ \E text \in SeqsUpTo(TypeChars, MaxQuoted) :
        /\ client = None
        /\ properties = <<>>
        /\ pre = <<>>
        /\ op = Op("type_line", TextOperand(TypePrefix \o text \o LineEnd), TRUE, "",
                   NoProperty, FALSE, None,
                   [input |-> text, line |-> property(<<>>), types |-> <<>>])
        /\ parsed = FALSE

\* The record of property applied to the line, with result r.
AfterParseLine(r) ==
    /\ op.kind \in {"name_line", "type_line"}
    /\ op' = [op EXCEPT !.kind = IF op.kind = "name_line" THEN "name_parsed" ELSE "type_parsed",
                        !.ok = r.ok,
                        !.card.line = r,
                        !.card.types = TypeParameters(r.parameters)]
    /\ UNCHANGED <<client, properties, pre, parsed>>

ParseLine == AfterParseLine(property(op.arg.value.text))

NextLine == ParseLine

SpecLine == InitLine /\ [][NextLine]_vars

\* The name in upper case.
UpperName(name) == [k \in 1..Len(name) |-> to_ascii_uppercase(name[k])]

DelimiterNames ==
    {<<"B", "E", "G", "I", "N">>, <<"V", "E", "R", "S", "I", "O", "N">>, <<"E", "N", "D">>}

\* C21: a line whose name is made of alphanumeric characters and dashes and
\* is not BEGIN, VERSION or END is accepted, and the whole name is its
\* name.
C21_NameAccepted ==
    (/\ op.kind = "name_parsed"
     /\ \A k \in 1..Len(op.card.input) : is_alphanumeric_dash(op.card.input[k])
     /\ UpperName(op.card.input) \notin DelimiterNames)
        => (op.ok /\ op.card.line.name = op.card.input)

\* C22: the TYPE parameter of a text between double quotes holds the items
\* of the text between the quotes, and no item holds a quote.
C22_QuotesRemoved ==
    (/\ op.kind = "type_parsed"
     /\ Len(op.card.input) >= 2
     /\ Head(op.card.input) = "\""
     /\ op.card.input[Len(op.card.input)] = "\""
     /\ \A k \in 2..(Len(op.card.input) - 1) : op.card.input[k] # "\"")
        => /\ op.ok
           /\ Len(op.card.types) = 1
           /\ op.card.types[1].value.list
                 = ItemsFrom(SubSeq(op.card.input, 2, Len(op.card.input) - 1), UNESCAPED_COMMA, 1)
           /\ \A k \in 1..Len(op.card.types[1].value.list) :
                 \A j \in 1..Len(op.card.types[1].value.list[k]) :
                     op.card.types[1].value.list[k][j] # "\""

====
